---- MODULE Spec2Model ----
(***************************************************************************)
(* Aqua Sentinel: the pan/zoom transform of the map widget (IndonesiaMap), *)
(* the offline cache worker (service-worker.js), the seeded data           *)
(* generators, the Tides, Detector, News and Settings panels, and the App  *)
(* shell with its theme and active page.                                   *)
(*                                                                         *)
(* Numbers.  The widget computes in IEEE doubles; here every length and    *)
(* the scale are fixed-point integers, Q units to one (pixel, or scale     *)
(* 1.0), and every product or quotient is rounded to the nearest unit, so  *)
(* that arithmetic error exists in the model as it does in the code, only  *)
(* with a coarser quantum.  Tide heights are integers in tenths of a       *)
(* metre (the code rounds them with toFixed(1)), the samples of the        *)
(* history are computed in thousandths before that rounding, and instants  *)
(* are minutes since 2023-01-01T00:00Z.                                    *)
(***************************************************************************)
EXTENDS Integers, Sequences, FiniteSets, TLC

VARIABLES
    svgRect,        \* svgRef.current.getBoundingClientRect(): left, top, width, height
    transform,      \* useState({ scale, x, y })
    isPanning,      \* useState(false)
    startPoint,     \* startPointRef.current
    pointer,        \* where the pointer is: clientX, clientY of the next event
    budget,         \* how many wheel and pointer events this run may take
    wheels,         \* wheel events so far
    moves,          \* pointer presses and moves so far
    phase,          \* the worker's lifecycle: parsed, installFetched, activated, redundant
    online,         \* whether the network can be reached
    cacheNames,     \* CacheStorage: the names of the caches, in creation order
    store,          \* CacheStorage: per cache name, the response stored for each request
    handlers,       \* the fetch events dispatched so far, each with its handler's position
    puts,           \* cache.put calls started and not yet completed
    installFetched, \* per manifest URL, what the network answered install's cache.add (history)
    writes,         \* every cache.put a fetch handler started (history)
    deleted,        \* the caches activate deleted (history)
    genArgs,        \* the (city, date) a caller passes to the generators, and its time zone
    genCalls,       \* what each call of generateTideDataForDate so far completed with
    genBase,        \* what the call of generateBaseWaterLevel completed with
    tzOffset,       \* the browser's local offset from UTC, in minutes (east positive)
    now,            \* what new Date() returns
    tidesPc,        \* Tides: unmounted, rendered (first render and its effects), settled, crashed
    tideAlertsItem, \* localStorage.getItem('tideAlerts')
    alerts,         \* Tides: useState<TideAlertConfig>({})
    selectedDate,   \* Tides: useState(new Date())
    tideInfo,       \* Tides: useState<TideData[]>([])
    tidesCity,      \* Tides: useState(CITIES[0]), the selected city
    pending,        \* Tides: the state updates queued by the effects of the first render
    tidesLog,       \* Tides: what the panel's life so far has seen (history)
    tidesEvents,    \* Tides: alert and date changes so far, and mounts
    detectorPc,     \* Detector: unmounted, rendered (effect not yet run), running
    waterLevel,     \* Detector: useState(25), in Q-ths of a percent
    detectorCity,   \* Detector: useState(CITIES[0]), the selected city
    timers,         \* the active setInterval timers, each with the baseLevel of its callback
    interval,       \* Detector: the timer id held by the cleanup of the last effect
    detectorLog,    \* Detector: mounts, city changes and ticks so far (history)
    newsPc,         \* News: unmounted, fetching (a call of fetchNews awaits the service), done
    isLoading,      \* News: useState(true)
    error,          \* News: useState<string | null>(null)
    articles,       \* News: useState<NewsArticle[]>([])
    newsCalls,      \* the calls of fetchNews awaiting the service, each with its component instance
    newsLog,        \* News: mounts, fetches and how the last fetch ended (history)
    gesture,        \* IndonesiaMap: the last event and the press the pointer holds (history)
    appPc,          \* App: closed, rendered (first render and its effects), settled
    activePage,     \* App: useState<Page>(Page.Detector)
    theme,          \* App: useState<'light' | 'dark'>('light')
    themeItem,      \* localStorage.getItem('theme')
    prefersDark,    \* window.matchMedia('(prefers-color-scheme: dark)').matches
    profile,        \* App: useState<Profile>({ name: 'Aqua User', picture: null })
    appLog,         \* App: loads and toggles so far, what was stored at the last load (history)
    settingsPc,     \* Settings: unmounted, rendered (effects of the last render pending), settled
    name,           \* Settings: useState(profile.name)
    picture,        \* Settings: useState(profile.picture)
    isEditing,      \* Settings: useState(false)
    reads,          \* the FileReader reads in flight, each with its component instance
    settingsLog     \* Settings: mounts, edits and the last event (history)

swVars == <<phase, online, cacheNames, store, handlers, puts, installFetched, writes, deleted>>

mapVars == <<svgRect, transform, isPanning, startPoint, pointer, budget, wheels, moves>>

genVars == <<genArgs, genCalls, genBase>>

envVars == <<tzOffset, now>>

tidesVars == <<tidesPc, tideAlertsItem, alerts, selectedDate, tideInfo,
               tidesCity, pending, tidesLog, tidesEvents>>

detectorVars == <<detectorPc, waterLevel, detectorCity, timers, interval, detectorLog>>

newsVars == <<newsPc, isLoading, error, articles, newsCalls, newsLog>>

gestureVars == <<gesture>>

appVars == <<appPc, activePage, theme, themeItem, prefersDark, profile, appLog>>

settingsVars == <<settingsPc, name, picture, isEditing, reads, settingsLog>>

shellVars == <<gestureVars, appVars, settingsVars>>

pageVars == <<genVars, envVars, tidesVars, detectorVars, newsVars, shellVars>>

vars == <<mapVars, swVars, pageVars>>

\* no generator has been called
GenAtRest ==
    /\ genArgs = [city |-> "", date |-> [nan |-> TRUE, v |-> 0], tz |-> 0]
    /\ genCalls = << >>
    /\ genBase = [completion |-> "none"]

\* the panels and the generators before anything runs, for the specifications
\* of the worker and of the map
\* the Tides panel is not mounted and nothing is stored
EnvAtRest ==
    /\ tzOffset = 0
    /\ now = [nan |-> FALSE, v |-> 0]

TidesAtRest ==
    /\ tidesPc = "unmounted"
    /\ tideAlertsItem = [kind |-> "null", members |-> {}]
    /\ alerts = [c \in {} |-> 0]
    /\ selectedDate = [nan |-> FALSE, v |-> 0]
    /\ tideInfo = << >>
    /\ tidesCity = "Jakarta"
    /\ pending = [setAlerts |-> FALSE, alerts |-> [c \in {} |-> 0], tideInfo |-> << >>]
    /\ tidesLog = [errors |-> 0, crash |-> "none",
                   mountedFrom |-> [kind |-> "null", members |-> {}],
                   picked |-> [empty |-> TRUE, year |-> 0, month |-> 0, day |-> 0],
                   hasPicked |-> FALSE, changed |-> FALSE]
    /\ tidesEvents = [user |-> 0, mount |-> 0]

\* the Detector panel is not mounted and no timer runs
DetectorAtRest ==
    /\ detectorPc = "unmounted"
    /\ waterLevel = 0
    /\ detectorCity = "Jakarta"
    /\ timers = {}
    /\ interval = 0
    /\ detectorLog = [mounts |-> 0, cityChanges |-> 0, ticks |-> 0, sinceSeed |-> 0]

\* the News panel is not mounted and no call is in flight
NewsAtRest ==
    /\ newsPc = "unmounted"
    /\ isLoading = TRUE
    /\ error = "null"
    /\ articles = << >>
    /\ newsCalls = {}
    /\ newsLog = [mounts |-> 0, fetches |-> 0, failures |-> 0, outcome |-> "none",
                  settled |-> [kind |-> "none", text |-> << >>],
                  appliedTo |-> 0, discarded |-> 0]

\* no event has reached the map widget
GestureAtRest ==
    gesture = [last |-> "none", streak |-> -1,
               at |-> [clientX |-> 0, clientY |-> 0],
               from |-> [scale |-> 0, x |-> 0, y |-> 0]]

\* the page is not loaded and nothing is stored
AppAtRest ==
    /\ appPc = "closed"
    /\ activePage = "DETECTOR"
    /\ theme = "light"
    /\ themeItem = "null"
    /\ prefersDark = FALSE
    /\ profile = [name |-> "Aqua User", picture |-> "null"]
    /\ appLog = [loads |-> 0, toggles |-> 0, storedAtLoad |-> "null", queued |-> "none"]

\* the Settings panel is not mounted and no file is being read
SettingsAtRest ==
    /\ settingsPc = "unmounted"
    /\ name = "Aqua User"
    /\ picture = "null"
    /\ isEditing = FALSE
    /\ reads = {}
    /\ settingsLog = [mounts |-> 0, edits |-> 0, last |-> "none"]

ShellAtRest == GestureAtRest /\ AppAtRest /\ SettingsAtRest

PagesAtRest ==
    GenAtRest /\ EnvAtRest /\ TidesAtRest /\ DetectorAtRest /\ NewsAtRest /\ ShellAtRest

----------------------------------------------------------------------------
(* Fixed-point arithmetic *)

Q == 100

Min(a, b) == IF a <= b THEN a ELSE b
Max(a, b) == IF a >= b THEN a ELSE b
Abs(a) == IF a < 0 THEN -a ELSE a

\* a / b rounded to the nearest integer (b > 0), halves upward
RoundDiv(a, b) == (2 * a + b) \div (2 * b)

\* the product of two fixed-point numbers, and their quotient
FxMul(a, b) == RoundDiv(a * b, Q)
FxDiv(a, b) == RoundDiv(a * Q, b)

----------------------------------------------------------------------------
(* service-worker.js *)

CACHE_NAME == "aqua-sentinel-cache-v1"

\* a cache left by an earlier version of the worker
OLD_CACHE == "aqua-sentinel-cache-v0"

\* The manifest, shortened to one entry of each kind among its 19: a
\* same-origin asset and the cross-origin stylesheet.  Install and fetch treat
\* every entry alike.
URLS_TO_CACHE == {"/", "https://cdn.tailwindcss.com"}

\* what the page requests: the manifest's assets and one that is not listed
Requests == URLS_TO_CACHE \cup {"/favicon.ico"}

Response(status, type, body) == [status |-> status, type |-> type, body |-> body]

\* caches.match and cache.match resolve with undefined when nothing matches
NoResponse == Response(0, "undefined", 0)

\* what the network can answer a page's request with: the asset (in a newer
\* version than install saw), an error status, an opaque (no-cors) response
NetworkResponses ==
    { Response(200, "basic", 2), Response(404, "basic", 0), Response(0, "opaque", 1) }

\* what the network answers install's requests with, when it answers
InstallResponses == { Response(200, "basic", 1), Response(404, "basic", 0) }

\* Response.ok, which cache.add requires
Ok(resp) == resp.status >= 200 /\ resp.status <= 299

EmptyCache == [r \in Requests |-> NoResponse]

AllCacheNames == {CACHE_NAME, OLD_CACHE}

\* caches.match(request): the first match among all caches, in creation order
cachesMatch(names, st, req) ==
    LET hits == { i \in 1..Len(names) : st[names[i]][req] # NoResponse }
    IN  IF hits = {} THEN NoResponse
        ELSE st[names[CHOOSE i \in hits : \A j \in hits : i <= j]][req]

\* caches.open(name): the names after opening, which creates a missing cache
cachesOpen(names, cacheName) ==
    IF \E i \in 1..Len(names) : names[i] = cacheName THEN names ELSE Append(names, cacheName)

\* (mutant) the whitelist is ignored
notWhitelisted_Nothing(cacheName) == TRUE

\* cacheWhitelist.indexOf(cacheName) === -1
notWhitelisted(cacheName) == cacheName # CACHE_NAME

\* the caches activate deletes
activateDeletes(names) == { names[i] : i \in { j \in 1..Len(names) : notWhitelisted(names[j]) } }

\* cache.add(url): fetch, then store the response unless the fetch failed or
\* the response is not ok; what ends up stored ("fetched" is NoResponse for a
\* network error)
cacheAddStores(fetched) == IF fetched # NoResponse /\ Ok(fetched) THEN fetched ELSE NoResponse

\* (mutant) without the per-add catch, one failed add rejects Promise.all
installSettles_AnyFailureRejects(stored) ==
    IF \E u \in URLS_TO_CACHE : stored[u] = NoResponse THEN "rejected" ELSE "fulfilled"

\* install's waitUntil promise, given what each cache.add stored: every add's
\* rejection is caught, so Promise.all fulfils
installSettles(stored) == "fulfilled"

\* (mutant) cache.addAll's behaviour: one failure and nothing is stored
installStores_AllOrNothing(stored) ==
    IF \E u \in URLS_TO_CACHE : stored[u] = NoResponse
    THEN [u \in URLS_TO_CACHE |-> NoResponse] ELSE stored

\* what install leaves in the cache for each URL, given what each add stored
installStores(stored) == stored

\* (mutant) every network response is cached
shouldCache_Always(networkResponse) == TRUE

\* the condition under which the fetch handler caches a network response
\* (the negation of line 71's early return)
shouldCache(networkResponse) ==
    ~(networkResponse.status # 200 /\ networkResponse.type # "opaque")

\* the handler's record of one fetch event
Handler(req, pc, cachedResponse, networkResponse, result, settled, source) ==
    [req |-> req, pc |-> pc, cachedResponse |-> cachedResponse,
     networkResponse |-> networkResponse, result |-> result, settled |-> settled,
     source |-> source, hitAtDelivery |-> FALSE]

\* (mutant) network first: the cached response is not looked at
onFetch_NetworkFirst(req, cachedResponse) ==
    Handler(req, "network", cachedResponse, NoResponse, NoResponse, "pending", "none")

\* caches.match(event.request).then(cachedResponse => ...): on a hit the
\* handler settles with the cached response, else it awaits fetch(event.request)
onFetch(req, cachedResponse) ==
    IF cachedResponse # NoResponse
    THEN Handler(req, "responded", cachedResponse, NoResponse, cachedResponse, "fulfilled", "cache")
    ELSE Handler(req, "network", cachedResponse, NoResponse, NoResponse, "pending", "none")

\* fetch(event.request).then(networkResponse => ...): the handler settles
\* with the network response
onNetworkResponse(h, networkResponse) ==
    [h EXCEPT !.pc = "responded", !.networkResponse = networkResponse,
              !.result = networkResponse, !.settled = "fulfilled", !.source = "network"]

\* (mutant) no catch: the rejection reaches respondWith
onNetworkFailure_NoCatch(h, secondMatch) ==
    [h EXCEPT !.pc = "responded", !.settled = "rejected", !.source = "fallback"]

\* .catch(error => caches.match(event.request)): the handler settles with the
\* second lookup's result
onNetworkFailure(h, secondMatch) ==
    [h EXCEPT !.pc = "responded", !.result = secondMatch, !.settled = "fulfilled",
              !.source = "fallback"]

\* Bounds of the exploration: fetch events in one run
MaxFetches == 2

\* CacheStorage as the worker finds it: holding an earlier version's cache.
\* (On a first install it is empty, and the runs are these with nothing for
\* activate to delete.)
InitialStorages ==
    { [names |-> <<OLD_CACHE>>,
       old |-> [EmptyCache EXCEPT !["/"] = Response(200, "basic", 0)]] }

SWInit ==
    /\ phase = "parsed"
    /\ online \in BOOLEAN
    /\ \E s \in InitialStorages :
        /\ cacheNames = s.names
        /\ store = [n \in AllCacheNames |-> IF n = OLD_CACHE THEN s.old ELSE EmptyCache]
    /\ handlers = << >>
    /\ puts = {}
    /\ installFetched = [u \in URLS_TO_CACHE |-> NoResponse]
    /\ writes = {}
    /\ deleted = {}

\* the worker before it is installFetched, for the specifications of the page
WorkerParsed ==
    /\ phase = "parsed"
    /\ online = TRUE
    /\ cacheNames = << >>
    /\ store = [n \in AllCacheNames |-> EmptyCache]
    /\ handlers = << >>
    /\ puts = {}
    /\ installFetched = [u \in URLS_TO_CACHE |-> NoResponse]
    /\ writes = {}
    /\ deleted = {}

\* the network comes and goes
NetworkChange ==
    /\ online' = ~online
    /\ UNCHANGED <<phase, cacheNames, store, handlers, puts, installFetched, writes, deleted>>

\* 'install': open the cache, add every URL on its own, wait for all of them
Install ==
    /\ phase = "parsed"
    /\ \E fetched \in [URLS_TO_CACHE -> InstallResponses \cup {NoResponse}] :
        LET stored == [u \in URLS_TO_CACHE |-> cacheAddStores(fetched[u])]
            kept == installStores(stored)
        IN  /\ ~online => \A u \in URLS_TO_CACHE : fetched[u] = NoResponse
            /\ cacheNames' = cachesOpen(cacheNames, CACHE_NAME)
            /\ store' = [store EXCEPT ![CACHE_NAME] =
                            [r \in Requests |->
                                IF r \in URLS_TO_CACHE /\ kept[r] # NoResponse
                                THEN kept[r] ELSE @[r]]]
            /\ installFetched' = fetched
            /\ phase' = IF installSettles(stored) = "fulfilled" THEN "installed" ELSE "redundant"
    /\ UNCHANGED <<online, handlers, puts, writes, deleted>>

\* 'activate': delete every cache that is not whitelisted
Activate ==
    /\ phase = "installed"
    /\ phase' = "activated"
    /\ LET gone == activateDeletes(cacheNames)
       IN  /\ cacheNames' = SelectSeq(cacheNames, LAMBDA n : n \notin gone)
           /\ store' = [n \in AllCacheNames |-> IF n \in gone THEN EmptyCache ELSE store[n]]
           /\ deleted' = deleted \cup gone
    /\ UNCHANGED <<online, handlers, puts, installFetched, writes>>

\* 'fetch': the event is dispatched and the first caches.match resolves
FetchEvent ==
    /\ phase = "activated"
    /\ Len(handlers) < MaxFetches
    /\ \E req \in Requests :
        handlers' = Append(handlers, onFetch(req, cachesMatch(cacheNames, store, req)))
    /\ UNCHANGED <<phase, online, cacheNames, store, puts, installFetched, writes, deleted>>

\* fetch(event.request) resolves: either returned as it is, or cloned, a
\* cache.put started (not awaited) and then returned
NetworkResolve ==
    \E i \in 1..Len(handlers), networkResponse \in NetworkResponses :
        /\ handlers[i].pc = "network"
        /\ online
        /\ handlers' = [handlers EXCEPT ![i] = onNetworkResponse(@, networkResponse)]
        /\ IF shouldCache(networkResponse)
           THEN LET put == [by |-> i, req |-> handlers[i].req, resp |-> networkResponse]
                IN  /\ puts' = puts \cup {put}
                    /\ writes' = writes \cup {put}
           ELSE UNCHANGED <<puts, writes>>
        /\ UNCHANGED <<phase, online, cacheNames, store, installFetched, deleted>>

\* fetch(event.request) rejects: the second caches.match
NetworkReject ==
    \E i \in 1..Len(handlers) :
        /\ handlers[i].pc = "network"
        /\ handlers' = [handlers EXCEPT ![i] =
                            onNetworkFailure(@, cachesMatch(cacheNames, store, handlers[i].req))]
        /\ UNCHANGED <<phase, online, cacheNames, store, puts, installFetched, writes, deleted>>

\* caches.open(CACHE_NAME).then(cache => cache.put(...)) completes
PutCompletes ==
    \E put \in puts :
        /\ puts' = puts \ {put}
        /\ cacheNames' = cachesOpen(cacheNames, CACHE_NAME)
        /\ store' = [store EXCEPT ![CACHE_NAME][put.req] = put.resp]
        /\ UNCHANGED <<phase, online, handlers, installFetched, writes, deleted>>

\* the page receives what respondWith settled with
Deliver ==
    \E i \in 1..Len(handlers) :
        /\ handlers[i].pc = "responded"
        /\ handlers' = [handlers EXCEPT ![i] =
                [@ EXCEPT !.pc = "delivered",
                          !.hitAtDelivery =
                              cachesMatch(cacheNames, store, handlers[i].req) # NoResponse]]
        /\ UNCHANGED <<phase, online, cacheNames, store, puts, installFetched, writes, deleted>>

SWNext ==
    \/ NetworkChange /\ UNCHANGED <<mapVars, pageVars>>
    \/ Install /\ UNCHANGED <<mapVars, pageVars>>
    \/ Activate /\ UNCHANGED <<mapVars, pageVars>>
    \/ FetchEvent /\ UNCHANGED <<mapVars, pageVars>>
    \/ NetworkResolve /\ UNCHANGED <<mapVars, pageVars>>
    \/ NetworkReject /\ UNCHANGED <<mapVars, pageVars>>
    \/ PutCompletes /\ UNCHANGED <<mapVars, pageVars>>
    \/ Deliver /\ UNCHANGED <<mapVars, pageVars>>

\* the map widget before any event, for the specifications of the worker
MapAtRest ==
    /\ svgRect = [left |-> 0, top |-> 0, width |-> 640 * Q, height |-> 320 * Q]
    /\ transform = [scale |-> 1 * Q, x |-> 0, y |-> 0]
    /\ isPanning = FALSE
    /\ startPoint = [x |-> 0, y |-> 0]
    /\ pointer = [clientX |-> 0, clientY |-> 0]
    /\ budget = [wheels |-> 0, moves |-> 0]
    /\ wheels = 0
    /\ moves = 0

SWSpecInit == SWInit /\ MapAtRest /\ PagesAtRest

SpecSW == SWSpecInit /\ [][SWNext]_vars

----------------------------------------------------------------------------
(* Properties of the cache worker *)

Names(seq) == { seq[i] : i \in 1..Len(seq) }

Settled(h) == h.pc \in {"responded", "delivered"}

CacheableResponse(resp) == resp.status = 200 \/ resp.type = "opaque"

\* C4 (as stated): once install has run, a fetch for a manifest asset that
\* the network does not answer is answered with a cached response.
C4_ManifestServedOffline ==
    \A i \in 1..Len(handlers) :
        LET h == handlers[i]
        IN  (Settled(h) /\ h.req \in URLS_TO_CACHE /\ h.source # "network")
                => h.result # NoResponse

\* C4 (amended): once install has run, a fetch for a manifest asset whose
\* pre-cache request was answered with an ok response is answered from the
\* cache with that response, whether or not the network is available.
C4_PrecachedServedOffline ==
    \A i \in 1..Len(handlers) :
        LET h == handlers[i]
        IN  (h.req \in URLS_TO_CACHE /\ Ok(installFetched[h.req]))
                => /\ Settled(h)
                   /\ h.source = "cache"
                   /\ h.result = installFetched[h.req]

\* C4 witness: offline, a pre-cached asset has been delivered from the cache
\* while another manifest asset's pre-cache had failed
C4_Witness ==
    /\ ~online
    /\ \E u \in URLS_TO_CACHE : ~Ok(installFetched[u])
    /\ \E i \in 1..Len(handlers) :
        /\ handlers[i].pc = "delivered"
        /\ handlers[i].req \in URLS_TO_CACHE
        /\ handlers[i].result = installFetched[handlers[i].req]

\* C5: when the request of a fetch event has a matching cache entry, the
\* handler responds with that entry and makes no network fetch and no cache
\* write for the request.
C5_CacheFirst ==
    /\ [](\A i \in 1..Len(handlers) :
            handlers[i].source = "cache"
                => /\ handlers[i].networkResponse = NoResponse
                   /\ \A w \in writes : w.by # i)
    /\ [][\A req \in Requests :
            ( /\ Len(handlers') = Len(handlers) + 1
              /\ handlers'[Len(handlers')].req = req
              /\ \E n \in Names(cacheNames) : store[n][req] # NoResponse )
            => LET h == handlers'[Len(handlers')]
               IN  /\ h.pc = "responded" /\ h.settled = "fulfilled" /\ h.source = "cache"
                   /\ h.result # NoResponse
                   /\ \E n \in Names(cacheNames) : h.result = store[n][req]
                   /\ puts' = puts /\ writes' = writes /\ store' = store]_vars

\* C5 witness: with the network reachable, a request was answered from the cache
C5_Witness ==
    /\ online
    /\ \E i \in 1..Len(handlers) :
        handlers[i].pc = "delivered" /\ handlers[i].source = "cache"

\* C6: on a cache miss the handler returns the network response as it is, and
\* starts a write of it to the current cache exactly if its status is 200 or
\* its type is opaque; the current cache never holds anything but what
\* install stored and such responses.
C6_CachedIffOkOrOpaque ==
    /\ \A i \in 1..Len(handlers) :
        LET h == handlers[i]
        IN  h.source = "network"
                => /\ h.result = h.networkResponse
                   /\ (\E w \in writes : w.by = i) <=> CacheableResponse(h.networkResponse)
                   /\ \A w \in writes :
                        w.by = i => w.req = h.req /\ w.resp = h.networkResponse
    /\ \A r \in Requests :
        LET e == store[CACHE_NAME][r]
        IN  e # NoResponse
                => \/ r \in URLS_TO_CACHE /\ e = installFetched[r]
                   \/ \E w \in writes : w.req = r /\ w.resp = e /\ CacheableResponse(e)

\* C6 witness: one miss was answered 404 and left no entry, another was
\* answered with a cacheable response that is now in the cache
C6_Witness ==
    \E i, j \in 1..Len(handlers) :
        /\ handlers[i].source = "network" /\ handlers[i].result.status = 404
        /\ store[CACHE_NAME][handlers[i].req] = NoResponse
        /\ handlers[j].source = "network"
        /\ store[CACHE_NAME][handlers[j].req] = handlers[j].result

\* C7: on a cache miss with a cacheable network response, a cache lookup for
\* the request already hits when the caller receives the response.
C7_StoredBeforeReturned ==
    \A i \in 1..Len(handlers) :
        LET h == handlers[i]
        IN  (h.pc = "delivered" /\ h.source = "network" /\ CacheableResponse(h.result))
                => h.hitAtDelivery

\* C8: when the network fetch of an uncached request rejects, the handler
\* does not reject: it settles with the result of a second cache lookup, the
\* cached response if one is there by then and no response otherwise.
C8_FallbackToCache ==
    [][\A i \in 1..Len(handlers) :
        ( /\ handlers[i].pc = "network"
          /\ handlers'[i].pc # "network"
          /\ handlers'[i].networkResponse = NoResponse )
        => /\ handlers'[i].settled = "fulfilled"
           /\ IF \E n \in Names(cacheNames) : store[n][handlers[i].req] # NoResponse
              THEN /\ handlers'[i].result # NoResponse
                   /\ \E n \in Names(cacheNames) :
                        handlers'[i].result = store[n][handlers[i].req]
              ELSE handlers'[i].result = NoResponse]_vars

\* C8 witness: a request missed the cache, its network fetch failed, and the
\* second lookup found what another handler had stored in the meantime
C8_Witness ==
    \E i \in 1..Len(handlers) :
        /\ handlers[i].cachedResponse = NoResponse
        /\ handlers[i].source = "fallback"
        /\ handlers[i].result # NoResponse

\* C9: activate deletes every cache but the current one, and nothing else
\* ever removes a cache or an entry: in every other step each cache keeps its
\* keys, and the current cache keeps them in every step.
C9_NoEvictionExceptActivate ==
    [][LET activation == phase = "installed" /\ phase' = "activated"
           KeepsKeys(n) ==
               /\ n \in Names(cacheNames')
               /\ \A r \in Requests : store[n][r] # NoResponse => store'[n][r] # NoResponse
       IN  /\ CACHE_NAME \in Names(cacheNames) => KeepsKeys(CACHE_NAME)
           /\ activation => Names(cacheNames') = Names(cacheNames) \cap {CACHE_NAME}
           /\ ~activation => \A n \in Names(cacheNames) : KeepsKeys(n)]_vars

\* C9 witness: activation has deleted an old cache, and the current cache
\* holds an install entry and one a fetch added later
C9_Witness ==
    /\ deleted # {}
    /\ \E u \in URLS_TO_CACHE : store[CACHE_NAME][u] # NoResponse
    /\ \E r \in Requests \ URLS_TO_CACHE : store[CACHE_NAME][r] # NoResponse

\* C10: whichever pre-cache requests fail, install completes, and every
\* manifest URL whose request was answered with an ok response is in the
\* current cache from then on.
C10_InstallTolerant ==
    phase # "parsed"
        => /\ phase # "redundant"
           /\ CACHE_NAME \in Names(cacheNames)
           /\ \A u \in URLS_TO_CACHE :
                Ok(installFetched[u]) => store[CACHE_NAME][u] = installFetched[u]

\* C10 witness: install is over, one pre-cache request failed, another succeeded
C10_Witness ==
    /\ phase = "installed"
    /\ \E u \in URLS_TO_CACHE : installFetched[u] = NoResponse
    /\ \E u \in URLS_TO_CACHE : Ok(installFetched[u])

----------------------------------------------------------------------------
(* IndonesiaMap *)

MIN_SCALE == 1 * Q
MAX_SCALE == 5 * Q

\* the viewBox "0 0 1000 500" the bounds are computed from
ContentWidth == 1000 * Q
ContentHeight == 500 * Q

clamp(value, min, max) == Max(min, Min(max, value))

\* deltaY < 0 ? 1.1 : 1 / 1.1, applied to a scale
ZoomIn(scale) == RoundDiv(scale * 11, 10)
ZoomOut(scale) == RoundDiv(scale * 10, 11)
zoomFactorApplied(scale, deltaY) == IF deltaY < 0 THEN ZoomIn(scale) ELSE ZoomOut(scale)

\* (mutant) the upper limit is not applied
newScaleOf_NoMax(scale, deltaY) == Max(MIN_SCALE, zoomFactorApplied(scale, deltaY))

newScaleOf(scale, deltaY) == clamp(zoomFactorApplied(scale, deltaY), MIN_SCALE, MAX_SCALE)

\* const boundXMin = Math.min(0, svgRect.width - 1000 * scale), likewise Y
boundXMin(rect, scale) == Min(0, rect.width - FxMul(ContentWidth, scale))
boundYMin(rect, scale) == Min(0, rect.height - FxMul(ContentHeight, scale))

\* (mutant) the current translate is left out
svgPointOf_NoTranslate(m, t, scale) == FxDiv(m, scale)

\* svgPoint: the content coordinate under a viewport coordinate m
svgPointOf(m, t, scale) == FxDiv(m - t, scale)

\* newX = mouseX - svgPoint.x * newScale, before bounding
zoomedTranslate(m, t, scale, newScale) == m - FxMul(svgPointOf(m, t, scale), newScale)

\* the transform handleWheel sets when the scale changes
wheelTransform(rect, t, mouseX, mouseY, newScale) ==
    [scale |-> newScale,
     x |-> clamp(zoomedTranslate(mouseX, t.x, t.scale, newScale), boundXMin(rect, newScale), 0),
     y |-> clamp(zoomedTranslate(mouseY, t.y, t.scale, newScale), boundYMin(rect, newScale), 0)]

\* (mutant) the pan is not bounded
panTransform_Unbounded(rect, t, clientX, clientY, start) ==
    [scale |-> t.scale, x |-> clientX - start.x, y |-> clientY - start.y]

\* the transform handleMouseMove sets: { ...prev, x: clampedX, y: clampedY }
panTransform(rect, t, clientX, clientY, start) ==
    [scale |-> t.scale,
     x |-> clamp(clientX - start.x, boundXMin(rect, t.scale), 0),
     y |-> clamp(clientY - start.y, boundYMin(rect, t.scale), 0)]

resetTransform == [scale |-> 1 * Q, x |-> 0, y |-> 0]

\* Rendered sizes of the <svg> (w-full h-auto, aspect 2:1) and its page offset.
\* Tides lays the map out inside max-w-2xl, so the svg is narrower than the
\* 1000 units of content: a desktop and a phone width.
RectChoices ==
    { [left |-> 16 * Q, top |-> 200 * Q, width |-> 640 * Q, height |-> 320 * Q],
      [left |-> 0, top |-> 120 * Q, width |-> 320 * Q, height |-> 160 * Q] }

\* Pointer positions, as offsets into the viewport
PointerOffsets(rect) ==
    { <<0, 0>>, <<rect.width, rect.height \div 2>>, <<rect.width, rect.height>> }

ClientPoints(rect) ==
    { [clientX |-> rect.left + o[1], clientY |-> rect.top + o[2]] : o \in PointerOffsets(rect) }

\* Bounds of the exploration.  A run is deep (enough wheel events to cross
\* the whole scale range, the pointer where it was at the start), middling
\* (wheel events up to scale 3 and a pointer event) or shallow (few wheel
\* events, several presses and moves).
DeepWheels == 18
DeepMoves == 0
MidWheels == 12
MidMoves == 1
ShallowWheels == 4
ShallowMoves == 3

Budgets ==
    { [wheels |-> DeepWheels, moves |-> DeepMoves],
      [wheels |-> MidWheels, moves |-> MidMoves],
      [wheels |-> ShallowWheels, moves |-> ShallowMoves] }

\* Each handler runs on the state of the last render: React re-renders the
\* component between two events, so transform and isPanning read by a handler
\* are the current ones.
MapInit ==
    /\ svgRect \in RectChoices
    /\ transform = [scale |-> 1 * Q, x |-> 0, y |-> 0]
    /\ isPanning = FALSE
    /\ startPoint = [x |-> 0, y |-> 0]
    /\ pointer \in ClientPoints(svgRect)
    /\ budget \in Budgets
    /\ wheels = 0
    /\ moves = 0

\* (mutant) only the scale is restored
handleResetView_ScaleOnly ==
    /\ transform' = [transform EXCEPT !.scale = 1 * Q]
    /\ UNCHANGED <<svgRect, isPanning, startPoint, pointer, budget, wheels, moves>>

\* onClick of the reset button
handleResetView ==
    /\ transform' = resetTransform
    /\ UNCHANGED <<svgRect, isPanning, startPoint, pointer, budget, wheels, moves>>

\* (mutant) no early return, and the translate follows the zoom factor
\* before the scale is clamped
handleWheel_UnclampedZoom ==
    \E deltaY \in {-1, 1} :
        LET newScale == newScaleOf(transform.scale, deltaY)
            rawScale == zoomFactorApplied(transform.scale, deltaY)
            mouseX == pointer.clientX - svgRect.left
            mouseY == pointer.clientY - svgRect.top
        IN  /\ wheels < budget.wheels
            /\ wheels' = wheels + 1
            /\ transform' = [wheelTransform(svgRect, transform, mouseX, mouseY, rawScale)
                                EXCEPT !.scale = newScale]
            /\ UNCHANGED <<svgRect, isPanning, startPoint, pointer, budget, moves>>

\* onWheel, at the pointer's position
handleWheel ==
    \E deltaY \in {-1, 1} :
        LET newScale == newScaleOf(transform.scale, deltaY)
            mouseX == pointer.clientX - svgRect.left
            mouseY == pointer.clientY - svgRect.top
        IN  /\ wheels < budget.wheels
            /\ wheels' = wheels + 1
            /\ transform' = IF newScale = transform.scale
                            THEN transform
                            ELSE wheelTransform(svgRect, transform, mouseX, mouseY, newScale)
            /\ UNCHANGED <<svgRect, isPanning, startPoint, pointer, budget, moves>>

\* (mutant) the anchor is the pointer's position, the translate is left out
handleMouseDown_AnchorAtPointer ==
    /\ moves < budget.moves
    /\ moves' = moves + 1
    /\ isPanning' = TRUE
    /\ startPoint' = [x |-> pointer.clientX, y |-> pointer.clientY]
    /\ UNCHANGED <<svgRect, transform, pointer, budget, wheels>>

\* onMouseDown, at the pointer's position
handleMouseDown ==
    /\ moves < budget.moves
    /\ moves' = moves + 1
    /\ isPanning' = TRUE
    /\ startPoint' = [x |-> pointer.clientX - transform.x, y |-> pointer.clientY - transform.y]
    /\ UNCHANGED <<svgRect, transform, pointer, budget, wheels>>

\* (mutant) a move pans whether the button is held or not
handleMouseMove_PansWhenIdle ==
    \E e \in ClientPoints(svgRect) :
        /\ moves < budget.moves
        /\ moves' = moves + 1
        /\ pointer' = e
        /\ transform' = panTransform(svgRect, transform, e.clientX, e.clientY, startPoint)
        /\ UNCHANGED <<svgRect, isPanning, startPoint, budget, wheels>>

\* onMouseMove: the pointer moves to e
handleMouseMove ==
    \E e \in ClientPoints(svgRect) :
        /\ moves < budget.moves
        /\ moves' = moves + 1
        /\ pointer' = e
        /\ transform' = IF ~isPanning
                        THEN transform
                        ELSE panTransform(svgRect, transform, e.clientX, e.clientY, startPoint)
        /\ UNCHANGED <<svgRect, isPanning, startPoint, budget, wheels>>

\* onMouseUp, onMouseLeave
handleMouseUpOrLeave ==
    /\ isPanning' = FALSE
    /\ UNCHANGED <<svgRect, transform, startPoint, pointer, budget, wheels, moves>>

MapNext ==
    \/ handleResetView /\ UNCHANGED <<swVars, pageVars>>
    \/ handleWheel /\ UNCHANGED <<swVars, pageVars>>
    \/ handleMouseDown /\ UNCHANGED <<swVars, pageVars>>
    \/ handleMouseMove /\ UNCHANGED <<swVars, pageVars>>
    \/ handleMouseUpOrLeave /\ UNCHANGED <<swVars, pageVars>>

\* The map widget alone: the worker has not started
MapSpecInit == MapInit /\ WorkerParsed /\ PagesAtRest

SpecMap == MapSpecInit /\ [][MapNext]_vars

\* The same handlers, with the history of the gesture kept: which event came
\* last and, while nothing but moves followed the last press, where the press
\* was and what the transform was then.
PanWheels == 3
PanMoves == 4
MaxStreak == 2

track(kind) ==
    gesture' =
        IF kind = "down"
        THEN [last |-> kind, streak |-> 0, at |-> pointer, from |-> transform]
        ELSE IF kind = "move" /\ gesture.streak >= 0
        THEN [gesture EXCEPT !.last = kind, !.streak = Min(@ + 1, MaxStreak)]
        ELSE [last |-> kind, streak |-> -1,
              at |-> [clientX |-> 0, clientY |-> 0],
              from |-> [scale |-> 0, x |-> 0, y |-> 0]]

PanInit ==
    /\ svgRect \in RectChoices
    /\ transform = [scale |-> 1 * Q, x |-> 0, y |-> 0]
    /\ isPanning = FALSE
    /\ startPoint = [x |-> 0, y |-> 0]
    /\ pointer \in ClientPoints(svgRect)
    /\ budget = [wheels |-> PanWheels, moves |-> PanMoves]
    /\ wheels = 0
    /\ moves = 0
    /\ gesture = [last |-> "none", streak |-> -1,
                  at |-> [clientX |-> 0, clientY |-> 0],
                  from |-> [scale |-> 0, x |-> 0, y |-> 0]]

PanRest == <<swVars, genVars, envVars, tidesVars, detectorVars, newsVars, appVars, settingsVars>>

PanNext ==
    \/ handleResetView /\ track("reset") /\ UNCHANGED PanRest
    \/ handleWheel /\ track("wheel") /\ UNCHANGED PanRest
    \/ handleMouseDown /\ track("down") /\ UNCHANGED PanRest
    \/ handleMouseMove /\ track("move") /\ UNCHANGED PanRest
    \/ handleMouseUpOrLeave /\ track("up") /\ UNCHANGED PanRest

PanSpecInit ==
    PanInit /\ WorkerParsed /\ GenAtRest /\ EnvAtRest /\ TidesAtRest /\ DetectorAtRest
    /\ NewsAtRest /\ AppAtRest /\ SettingsAtRest

SpecPan == PanSpecInit /\ [][PanNext]_vars

----------------------------------------------------------------------------
(* Properties of the map widget *)

\* the pointer's position in the viewport
MouseX == pointer.clientX - svgRect.left
MouseY == pointer.clientY - svgRect.top

\* C1: the view scale lies in [MIN_SCALE, MAX_SCALE] = [1, 5] after any
\* sequence of wheel, press, move, release and reset events.
C1_ScaleInRange == 1 * Q <= transform.scale /\ transform.scale <= 5 * Q

\* C1 witness: the scale has been driven up to the upper limit by wheel events
C1_Witness == transform.scale = 5 * Q /\ wheels >= 17

\* C2: on each axis min(0, viewport - content * scale) <= translate <= 0, so
\* the content covers the viewport whenever content * scale >= viewport.
C2_TranslateInBounds ==
    LET lowX == Min(0, svgRect.width - 1000 * transform.scale)
        lowY == Min(0, svgRect.height - 500 * transform.scale)
    IN  /\ lowX <= transform.x /\ transform.x <= 0
        /\ lowY <= transform.y /\ transform.y <= 0
        /\ 1000 * transform.scale >= svgRect.width
                => transform.x + 1000 * transform.scale >= svgRect.width
        /\ 500 * transform.scale >= svgRect.height
                => transform.y + 500 * transform.scale >= svgRect.height

\* C2 witness: a drag at a zoomed scale has pushed the content to its far edge
\* on x while y is strictly inside its bounds
C2_Witness ==
    /\ isPanning /\ moves >= 2
    /\ transform.scale > 1 * Q
    /\ transform.x = svgRect.width - 1000 * transform.scale
    /\ transform.y < 0 /\ transform.y > svgRect.height - 500 * transform.scale

\* the largest difference between two content coordinates taken for equal
Epsilon == Q \div 50

\* C3 (as stated): every wheel event that changes the scale leaves the content
\* coordinate under the cursor where it was, within Epsilon, on both axes.
C3_ZoomToPointAlways ==
    [][(wheels' = wheels + 1 /\ transform'.scale # transform.scale)
        => /\ Abs(FxDiv(MouseX - transform.x, transform.scale)
                   - FxDiv(MouseX - transform'.x, transform'.scale)) <= Epsilon
           /\ Abs(FxDiv(MouseY - transform.y, transform.scale)
                   - FxDiv(MouseY - transform'.y, transform'.scale)) <= Epsilon]_vars

\* whether the zoom-to-point translate of an axis, cursor - contentPoint * newScale,
\* lies within that axis's bounds for the new scale
Unclamped(m, t, scale, newScale, view, content) ==
    LET u == m - FxMul(FxDiv(m - t, scale), newScale)
    IN  Min(0, view - content * newScale) <= u /\ u <= 0

\* C3 (amended): a wheel event that changes the scale leaves the content
\* coordinate under the cursor where it was, within Epsilon, on every axis
\* whose zoom-to-point translate lies within the bounds; on the other axes the
\* translate is the bound it overshot.
C3_ZoomToPointUnlessClamped ==
    [][(wheels' = wheels + 1 /\ transform'.scale # transform.scale)
        => /\ Unclamped(MouseX, transform.x, transform.scale, transform'.scale, svgRect.width, 1000)
                => Abs(FxDiv(MouseX - transform.x, transform.scale)
                       - FxDiv(MouseX - transform'.x, transform'.scale)) <= Epsilon
           /\ Unclamped(MouseY, transform.y, transform.scale, transform'.scale, svgRect.height, 500)
                => Abs(FxDiv(MouseY - transform.y, transform.scale)
                       - FxDiv(MouseY - transform'.y, transform'.scale)) <= Epsilon
           /\ ~Unclamped(MouseX, transform.x, transform.scale, transform'.scale, svgRect.width, 1000)
                => transform'.x \in {0, Min(0, svgRect.width - 1000 * transform'.scale)}
           /\ ~Unclamped(MouseY, transform.y, transform.scale, transform'.scale, svgRect.height, 500)
                => transform'.y \in {0, Min(0, svgRect.height - 500 * transform'.scale)}]_vars

\* C3 witness: a zoom-out away from the anchor, where the translate moved
\* with the cursor's content point (x strictly inside its bounds, scale changed)
C3_Witness ==
    /\ wheels >= 2 /\ moves >= 1
    /\ transform.scale > 1 * Q
    /\ transform.x < 0 /\ transform.x > svgRect.width - 1000 * transform.scale
    /\ MouseX = svgRect.width

\* the bounds of the translate at the current scale
LowX == Min(0, svgRect.width - 1000 * transform.scale)
LowY == Min(0, svgRect.height - 500 * transform.scale)

\* C22: a pointer-down from either state enters Panning and records
\* anchor = pointer position - current translate; a pointer-up or
\* pointer-leave from either state enters Idle; a pointer-move in Idle leaves
\* the transform unchanged; a pointer-move in Panning sets
\* translate = clamp(pointer position - anchor) and leaves the scale unchanged.
C22_TwoStateMachine ==
    [][/\ gesture'.last = "down" =>
            /\ isPanning' = TRUE
            /\ startPoint' = [x |-> pointer.clientX - transform.x,
                              y |-> pointer.clientY - transform.y]
            /\ transform' = transform
       /\ gesture'.last = "up" => isPanning' = FALSE /\ transform' = transform
       /\ (gesture'.last = "move" /\ ~isPanning) =>
            transform' = transform /\ isPanning' = FALSE
       /\ (gesture'.last = "move" /\ isPanning) =>
            /\ isPanning' = TRUE
            /\ startPoint' = startPoint
            /\ transform'.scale = transform.scale
            /\ transform'.x = Max(LowX, Min(0, pointer'.clientX - startPoint.x))
            /\ transform'.y = Max(LowY, Min(0, pointer'.clientY - startPoint.y))]_vars

\* C22 witness: a press in Idle at a zoomed scale, a move that panned the
\* content, a release, and a move in Idle
C22_Witness ==
    /\ gesture.last = "move"
    /\ ~isPanning
    /\ moves >= 3
    /\ wheels >= 1
    /\ transform.x < 0
    /\ transform.x # pointer.clientX - startPoint.x

\* C23: reset sets the transform to exactly {scale: 1, x: 0, y: 0} from any
\* transform and in either interaction state, and leaves the state unchanged.
C23_ResetRestoresIdentity ==
    /\ [](gesture.last = "reset" => transform = [scale |-> 1 * Q, x |-> 0, y |-> 0])
    /\ [][gesture'.last = "reset" =>
            /\ transform' = [scale |-> 1 * Q, x |-> 0, y |-> 0]
            /\ isPanning' = isPanning
            /\ startPoint' = startPoint]_vars

\* C23 witness: the view was zoomed and panned, and reset came while the
\* button was held
C23_Witness ==
    /\ gesture.last = "reset"
    /\ isPanning
    /\ wheels >= 1
    /\ startPoint.x # pointer.clientX
    /\ transform = [scale |-> 1 * Q, x |-> 0, y |-> 0]

\* C26: a wheel event that leaves the scale where it was (zoom-in at 5,
\* zoom-out at 1) leaves the translate where it was, wherever the cursor is.
C26_NoScaleChangeNoChange ==
    [][(wheels' = wheels + 1 /\ transform'.scale = transform.scale)
        => transform' = transform]_vars

\* C26 witness: a wheel event at the upper limit, with the content panned,
\* left the scale at the limit
C26_Witness ==
    /\ wheels = 18
    /\ transform.scale = 5 * Q
    /\ transform.x < 0
    /\ MouseX > 0

\* C27: while nothing but moves followed a press at p with transform t, the
\* scale is t's and the translate is clamp(t + (pointer - p)) on each axis;
\* with the pointer at p the transform is t.
C27_PanRelativeToGrab ==
    (gesture.last = "move" /\ gesture.streak >= 1) =>
        /\ transform.scale = gesture.from.scale
        /\ transform.x = Max(LowX, Min(0, gesture.from.x + (pointer.clientX - gesture.at.clientX)))
        /\ transform.y = Max(LowY, Min(0, gesture.from.y + (pointer.clientY - gesture.at.clientY)))
        /\ pointer = gesture.at => transform = gesture.from

\* C27 witness: a press on panned content, a move to the same place, then a
\* move elsewhere that changed the translate
C27_Witness ==
    /\ gesture.last = "move"
    /\ gesture.streak = 2
    /\ gesture.from.x < 0
    /\ pointer # gesture.at
    /\ transform # gesture.from

----------------------------------------------------------------------------
(* JavaScript numbers and dates, as far as the panels use them *)

\* a number is NaN or an integer (in the unit of its quantity)
NaN == [nan |-> TRUE, v |-> 0]
Num(v) == [nan |-> FALSE, v |-> v]

\* a + b, a * b, a % n: NaN if an operand is NaN
JsAdd(a, b) == IF a.nan \/ b.nan THEN NaN ELSE Num(a.v + b.v)
JsMul(a, b) == IF a.nan \/ b.nan THEN NaN ELSE Num(a.v * b.v)
JsMod(a, n) == IF a.nan THEN NaN ELSE Num(a.v % n)

\* a || 0: NaN and 0 are falsy
OrZero(a) == IF a.nan \/ a.v = 0 THEN Num(0) ELSE a

\* a >= b: false if an operand is NaN
JsGeq(a, b) == ~a.nan /\ ~b.nan /\ a.v >= b.v

\* The calendar of Date: days are counted from 2023-01-01, months from 0.
Years == 2023..2025

IsLeapYear(y) == (y % 4 = 0 /\ y % 100 # 0) \/ y % 400 = 0

DaysInMonth(y, m) ==
    CASE m \in {0, 2, 4, 6, 7, 9, 11} -> 31
      [] m \in {3, 5, 8, 10} -> 30
      [] OTHER -> IF IsLeapYear(y) THEN 29 ELSE 28

RECURSIVE DaysBeforeYear(_)
DaysBeforeYear(y) ==
    IF y <= 2023 THEN 0
    ELSE DaysBeforeYear(y - 1) + (IF IsLeapYear(y - 1) THEN 366 ELSE 365)

RECURSIVE DaysBeforeMonth(_, _)
DaysBeforeMonth(y, m) ==
    IF m = 0 THEN 0 ELSE DaysBeforeMonth(y, m - 1) + DaysInMonth(y, m - 1)

\* the day number of a calendar date
DayNumber(y, m, d) == DaysBeforeYear(y) + DaysBeforeMonth(y, m) + d - 1

\* the calendar date of a day number
CivilOfDay(n) ==
    LET y == CHOOSE yy \in Years : DaysBeforeYear(yy) <= n /\ n < DaysBeforeYear(yy + 1)
        r == n - DaysBeforeYear(y)
        m == CHOOSE mm \in 0..11 :
                DaysBeforeMonth(y, mm) <= r /\ r < DaysBeforeMonth(y, mm) + DaysInMonth(y, mm)
    IN  [year |-> y, month |-> m, date |-> r - DaysBeforeMonth(y, m) + 1]

MinutesPerDay == 1440

\* A Date is its time value: minutes since the epoch, or NaN (Invalid Date).
\* tz is the local offset from UTC in minutes, east positive.
LocalFields(date, tz) == CivilOfDay((date.v + tz) \div MinutesPerDay)
UTCFields(date) == CivilOfDay(date.v \div MinutesPerDay)

getDate(date, tz) == IF date.nan THEN NaN ELSE Num(LocalFields(date, tz).date)
getMonth(date, tz) == IF date.nan THEN NaN ELSE Num(LocalFields(date, tz).month)
getFullYear(date, tz) == IF date.nan THEN NaN ELSE Num(LocalFields(date, tz).year)

\* the first two UTF-16 code units of the strings the model passes as a city
CodeUnits(city) ==
    CASE city = "Jakarta" -> <<74, 97>>
      [] city = "Surabaya" -> <<83, 117>>
      [] city = "Medan" -> <<77, 101>>
      [] city = "Makassar" -> <<77, 97>>
      [] city = "Denpasar" -> <<68, 101>>
      [] city = "Semarang" -> <<83, 101>>
      [] city = "J" -> <<74>>
      [] OTHER -> << >>

\* city.charCodeAt(i), for i in {0, 1}: NaN past the end of the string
charCodeAt(city, i) == IF i < Len(CodeUnits(city)) THEN Num(CodeUnits(city)[i + 1]) ELSE NaN

\* String(n) as a sequence of characters
DigitChar == <<"0", "1", "2", "3", "4", "5", "6", "7", "8", "9">>

RECURSIVE DigitsOf(_)
DigitsOf(n) == IF n < 10 THEN <<DigitChar[n + 1]>> ELSE DigitsOf(n \div 10) \o <<DigitChar[(n % 10) + 1]>>

String(a) == IF a.nan THEN <<"N", "a", "N">> ELSE DigitsOf(a.v)

\* str.padStart(2, '0')
padStart2(str) == IF Len(str) < 2 THEN <<"0">> \o str ELSE str

----------------------------------------------------------------------------
(* The seeded generators: generateTideDataForDate, generateBaseWaterLevel *)

CITIES == <<"Jakarta", "Surabaya", "Medan", "Makassar", "Denpasar", "Semarang">>

CitySet == { CITIES[i] : i \in 1..Len(CITIES) }

statusOptions == <<"Rising", "Falling", "High", "Low">>

\* date.getDate() + date.getMonth() * 31 + city.charCodeAt(0) + (city.charCodeAt(1) || 0)
tideSeed(city, date, tz) ==
    JsAdd(JsAdd(JsAdd(getDate(date, tz), JsMul(getMonth(date, tz), Num(31))),
                charCodeAt(city, 0)),
          OrZero(charCodeAt(city, 1)))

\* statusOptions[seed % 4]: undefined when the index is NaN
statusOf(seed) == IF seed.nan THEN "undefined" ELSE statusOptions[(seed.v % 4) + 1]

\* (mutant) the range of the height is one step too wide
heightOf_WideRange(seed) == IF seed.nan THEN NaN ELSE Num(8 + ((seed.v * 17) % 19))

\* parseFloat((0.8 + ((seed * 17) % 18) / 10).toFixed(1)), in tenths
heightOf(seed) == IF seed.nan THEN NaN ELSE Num(8 + ((seed.v * 17) % 18))

\* `${String(hour).padStart(2, '0')}:${String(min).padStart(2, '0')}`
formatTime(hour, min) == padStart2(String(hour)) \o <<":">> \o padStart2(String(min))

nextHighOf(seed) ==
    formatTime(JsAdd(JsMod(JsMul(seed, Num(7)), 12), Num(12)), JsMod(JsMul(seed, Num(13)), 60))

nextLowOf(seed) ==
    formatTime(JsAdd(JsMod(JsMul(seed, Num(3)), 10), Num(1)), JsMod(JsMul(seed, Num(19)), 60))

\* the monthly averages, in tenths
monthlyAvgHighOf(seed) == IF seed.nan THEN NaN ELSE Num(20 + ((seed.v * 5) % 8))
monthlyAvgLowOf(seed) == IF seed.nan THEN NaN ELSE Num(4 + ((seed.v * 3) % 5))

\* Math.sin((k / 24) * 2 * Math.PI - Math.PI / 2) for k = 0..23, in thousandths
SineTable ==
    <<-1000, -966, -866, -707, -500, -259, 0, 259, 500, 707, 866, 966,
      1000, 966, 866, 707, 500, 259, 0, -259, -500, -707, -866, -966>>

sineWave(i, seed) == SineTable[((i + (seed.v % 24)) % 24) + 1]

\* (Math.random() - 0.5) * 0.2, in thousandths, for a random number r in thousandths
noiseOf(r) == RoundDiv((r - 500) * 2, 10)

\* one sample of the history, in tenths:
\* parseFloat(Math.max(0.1, base + sineWave * amplitude + noise).toFixed(1))
sampleOf(i, seed, avgHigh, avgLow, r) ==
    IF seed.nan THEN NaN
    ELSE LET base == (avgLow.v + avgHigh.v) * 50
             amplitude == (avgHigh.v - avgLow.v) * 50
             value == base + RoundDiv(sineWave(i, seed) * amplitude, 1000) + noiseOf(r)
         IN  Num(RoundDiv(Max(100, value), 100))

\* Array.from({ length: 24 }, (_, i) => ...): random[i] is what Math.random()
\* returns in the i-th callback
past24hOf(seed, avgHigh, avgLow, random) ==
    [i \in 1..24 |-> sampleOf(i - 1, seed, avgHigh, avgLow, random[i])]

\* (mutant) the height takes the first sample's noise
generateTideDataForDate_NoisyHeight(city, date, tz, random) ==
    LET seed == tideSeed(city, date, tz)
    IN  [city |-> city, status |-> statusOf(seed),
         height |-> JsAdd(heightOf(seed), Num(noiseOf(random[1]) \div 100)),
         nextHigh |-> nextHighOf(seed), nextLow |-> nextLowOf(seed),
         monthlyAvgHigh |-> monthlyAvgHighOf(seed), monthlyAvgLow |-> monthlyAvgLowOf(seed),
         past24h |-> past24hOf(seed, monthlyAvgHighOf(seed), monthlyAvgLowOf(seed), random)]

\* the TideData the generator returns
generateTideDataForDate(city, date, tz, random) ==
    LET seed == tideSeed(city, date, tz)
    IN  [city |-> city, status |-> statusOf(seed), height |-> heightOf(seed),
         nextHigh |-> nextHighOf(seed), nextLow |-> nextLowOf(seed),
         monthlyAvgHigh |-> monthlyAvgHighOf(seed), monthlyAvgLow |-> monthlyAvgLowOf(seed),
         past24h |-> past24hOf(seed, monthlyAvgHighOf(seed), monthlyAvgLowOf(seed), random)]

\* date.getDate() + (date.getMonth() * 31) + date.getFullYear()
\*   + city.charCodeAt(0) + (city.charCodeAt(1) || 0)
baseSeed(city, date, tz) ==
    JsAdd(JsAdd(JsAdd(JsAdd(getDate(date, tz), JsMul(getMonth(date, tz), Num(31))),
                      getFullYear(date, tz)),
                charCodeAt(city, 0)),
          OrZero(charCodeAt(city, 1)))

\* 10 + (seed % 81), in percent
generateBaseWaterLevel(city, date, tz) == JsAdd(Num(10), JsMod(baseSeed(city, date, tz), 81))

\* How a call completes.  Neither generator has a statement that can throw
\* for a string and a Date, and neither checks its arguments: every call
\* returns.
Returned(value) == [completion |-> "return", value |-> value]

callGenerateTideDataForDate(city, date, tz, random) ==
    Returned(generateTideDataForDate(city, date, tz, random))

callGenerateBaseWaterLevel(city, date, tz) == Returned(generateBaseWaterLevel(city, date, tz))

\* What Math.random() can return over the 24 callbacks of one call, in
\* thousandths: all low, all middle, all high, alternating
RandomSources ==
    { [i \in 1..24 |-> 0], [i \in 1..24 |-> 500], [i \in 1..24 |-> 999],
      [i \in 1..24 |-> IF i % 2 = 0 THEN 0 ELSE 999] }

\* the strings passed as a city: the six cities, a one-character string, the
\* empty string
Locations == CitySet \cup {"J", ""}

\* time zones: UTC-8, UTC, UTC+5:30, UTC+7 (Jakarta)
Offsets == {-480, 0, 330, 420}

\* the dates passed: 20:00 UTC on each of the first GenDays days from
\* 2023-01-25, the same hour on 2024-02-29 and 2024-12-31, and Invalid Date
GenDays == 12

GenDates ==
    { Num(DayNumber(2023, 0, 25 + k) * MinutesPerDay + 1200) : k \in 0..(GenDays - 1) }
        \cup { Num(DayNumber(2024, 1, 29) * MinutesPerDay + 1200),
               Num(DayNumber(2024, 11, 31) * MinutesPerDay + 1200), NaN }

\* calls of generateTideDataForDate in one run
MaxCalls == 2

GenInit ==
    /\ genArgs \in [city : Locations, date : GenDates, tz : Offsets]
    /\ genCalls = << >>
    /\ genBase = [completion |-> "none"]

\* a call of generateTideDataForDate(city, date)
CallGenerateTide ==
    /\ Len(genCalls) < MaxCalls
    /\ \E random \in RandomSources :
        genCalls' = Append(genCalls,
                        callGenerateTideDataForDate(genArgs.city, genArgs.date, genArgs.tz, random))
    /\ UNCHANGED <<genArgs, genBase>>

\* a call of generateBaseWaterLevel(city, date)
CallGenerateBase ==
    /\ genBase.completion = "none"
    /\ genBase' = callGenerateBaseWaterLevel(genArgs.city, genArgs.date, genArgs.tz)
    /\ UNCHANGED <<genArgs, genCalls>>

GenNext ==
    \/ CallGenerateTide /\ UNCHANGED <<mapVars, swVars, envVars, tidesVars, detectorVars, newsVars, shellVars>>
    \/ CallGenerateBase /\ UNCHANGED <<mapVars, swVars, envVars, tidesVars, detectorVars, newsVars, shellVars>>

GenSpecInit ==
    GenInit /\ MapAtRest /\ WorkerParsed /\ EnvAtRest /\ TidesAtRest /\ DetectorAtRest /\ NewsAtRest
    /\ ShellAtRest

SpecGen == GenSpecInit /\ [][GenNext]_vars

----------------------------------------------------------------------------
(* Properties of the generators *)

TideCalls == { genCalls[i] : i \in 1..Len(genCalls) }

\* C12: for a non-empty location and a valid date, generateTideDataForDate
\* returns a status that is one of Rising, Falling, High, Low and a height in
\* [0.8, 2.5] (8 to 25 tenths).
C12_StatusAndHeightInRange ==
    (genArgs.city # "" /\ ~genArgs.date.nan)
        => \A c \in TideCalls :
            /\ c.completion = "return"
            /\ c.value.status \in {"Rising", "Falling", "High", "Low"}
            /\ ~c.value.height.nan
            /\ 8 <= c.value.height.v /\ c.value.height.v <= 25

\* C12 witness: a call for a one-character location returned the largest
\* height, 2.5
C12_Witness ==
    /\ genArgs.city = "J" /\ ~genArgs.date.nan
    /\ \E c \in TideCalls : c.value.height = Num(25)

\* C13: two calls with the same (location, date) return the same status,
\* height, nextHigh, nextLow, monthlyAvgHigh and monthlyAvgLow, whatever
\* Math.random() returns in each call.
C13_SeededFieldsRepeat ==
    \A c1, c2 \in TideCalls :
        /\ c1.completion = c2.completion
        /\ c1.value.status = c2.value.status
        /\ c1.value.height = c2.value.height
        /\ c1.value.nextHigh = c2.value.nextHigh
        /\ c1.value.nextLow = c2.value.nextLow
        /\ c1.value.monthlyAvgHigh = c2.value.monthlyAvgHigh
        /\ c1.value.monthlyAvgLow = c2.value.monthlyAvgLow

\* C13 witness: two calls for a city and a valid date whose histories differ
C13_Witness ==
    /\ genArgs.city \in CitySet /\ ~genArgs.date.nan
    /\ Len(genCalls) >= 2
    /\ genCalls[1].value.past24h # genCalls[2].value.past24h

\* C16: no call of a generator throws, and a call with the empty string as
\* the location signals InvalidArgument instead of returning a value.
C16_InvalidArgumentSignalled ==
    \A c \in TideCalls \cup (IF genBase.completion = "none" THEN {} ELSE {genBase}) :
        /\ c.completion # "throw"
        /\ genArgs.city = "" => c.completion = "InvalidArgument"

----------------------------------------------------------------------------
(* Tides: the alert configuration, its persistence, the date input *)

\* The JSON text of a TideAlertConfig is its members, each a key with the
\* literals of its two values; other texts are kept by their kind only: the
\* null getItem returns for a missing key, and text JSON.parse rejects.
NoItem == [kind |-> "null", members |-> {}]
Malformed == [kind |-> "malformed", members |-> {}]

NoAlerts == [c \in {} |-> 0]

TrueLiteral == <<"t", "r", "u", "e">>
FalseLiteral == <<"f", "a", "l", "s", "e">>

\* the literal of a number of tenths: "2", "1.5"
NumberLiteral(n) ==
    IF n % 10 = 0 THEN DigitsOf(n \div 10)
    ELSE DigitsOf(n \div 10) \o <<".">> \o <<DigitChar[(n % 10) + 1]>>

DigitValue(ch) == CHOOSE d \in 0..9 : DigitChar[d + 1] = ch

RECURSIVE DigitsValue(_)
DigitsValue(str) ==
    IF str = << >> THEN 0
    ELSE DigitsValue(SubSeq(str, 1, Len(str) - 1)) * 10 + DigitValue(str[Len(str)])

\* parseFloat(str), in tenths, for a decimal numeral with at most one
\* fractional digit; NaN for the empty string
parseFloat(str) ==
    IF str = << >> THEN NaN
    ELSE LET dots == { i \in 1..Len(str) : str[i] = "." }
         IN  IF dots = {} THEN Num(DigitsValue(str) * 10)
             ELSE LET p == CHOOSE i \in dots : TRUE
                  IN  Num(DigitsValue(SubSeq(str, 1, p - 1)) * 10
                          + (IF p < Len(str) THEN DigitValue(str[p + 1]) ELSE 0))

\* (mutant) the members of disabled alerts are left out
JSONstringify_EnabledOnly(config) ==
    [kind |-> "json",
     members |-> { [key |-> c, enabled |-> TrueLiteral, level |-> NumberLiteral(config[c].level)]
                    : c \in { k \in DOMAIN config : config[k].enabled } }]

\* JSON.stringify(alerts)
JSONstringify(config) ==
    [kind |-> "json",
     members |-> { [key |-> c,
                    enabled |-> IF config[c].enabled THEN TrueLiteral ELSE FalseLiteral,
                    level |-> NumberLiteral(config[c].level)] : c \in DOMAIN config }]

\* JSON.parse(text): the mapping, or a SyntaxError
JSONparse(text) ==
    IF text.kind # "json" THEN [completion |-> "throw", value |-> NoAlerts]
    ELSE [completion |-> "return",
          value |-> [c \in { m.key : m \in text.members } |->
                        LET m == CHOOSE mm \in text.members : mm.key = c
                        IN  [enabled |-> m.enabled = TrueLiteral,
                             level |-> parseFloat(m.level).v]]]

\* (mutant) no try/catch around the load
loadAlerts_NoCatch(storedAlerts) ==
    IF storedAlerts.kind = "null" THEN [setAlerts |-> FALSE, alerts |-> NoAlerts, errors |-> 0, escaped |-> FALSE]
    ELSE LET parsed == JSONparse(storedAlerts)
         IN  IF parsed.completion = "return"
             THEN [setAlerts |-> TRUE, alerts |-> parsed.value, errors |-> 0, escaped |-> FALSE]
             ELSE [setAlerts |-> FALSE, alerts |-> NoAlerts, errors |-> 0, escaped |-> TRUE]

\* The first effect: try { if (storedAlerts) setAlerts(JSON.parse(storedAlerts)) }
\* catch (error) { console.error(...) }.  What it queues, logs and lets escape.
loadAlerts(storedAlerts) ==
    IF storedAlerts.kind = "null" THEN [setAlerts |-> FALSE, alerts |-> NoAlerts, errors |-> 0, escaped |-> FALSE]
    ELSE LET parsed == JSONparse(storedAlerts)
         IN  IF parsed.completion = "return"
             THEN [setAlerts |-> TRUE, alerts |-> parsed.value, errors |-> 0, escaped |-> FALSE]
             ELSE [setAlerts |-> FALSE, alerts |-> NoAlerts, errors |-> 1, escaped |-> FALSE]

\* alerts[data.city] with the fields the optional chaining reads
configOf(config, city) ==
    IF city \in DOMAIN config
    THEN [defined |-> TRUE, enabled |-> config[city].enabled, level |-> config[city].level]
    ELSE [defined |-> FALSE, enabled |-> FALSE, level |-> 0]

\* (mutant) the enabled flag is not looked at
isAlertTriggered_HeightOnly(alertConfig, data) ==
    IF ~alertConfig.defined THEN "undefined"
    ELSE IF JsGeq(data.height, Num(alertConfig.level)) THEN "true" ELSE "false"

\* alertConfig?.enabled && data.height >= alertConfig.level, as the value the
\* expression has: undefined, false or true
isAlertTriggered(alertConfig, data) ==
    IF ~alertConfig.defined THEN "undefined"
    ELSE IF ~alertConfig.enabled THEN "false"
    ELSE IF JsGeq(data.height, Num(alertConfig.level)) THEN "true" ELSE "false"

\* TideCard: alertConfig?.enabled ?? false, alertConfig?.level ?? 2.0
isAlertEnabled(alertConfig) == alertConfig.defined /\ alertConfig.enabled
alertLevel(alertConfig) == IF alertConfig.defined THEN alertConfig.level ELSE 20

\* TideCard.handleEnabledChange, handleLevelChange: the TideAlert passed to onAlertChange
enabledChanged(alertConfig, checked) == [enabled |-> checked, level |-> alertLevel(alertConfig)]
levelChanged(alertConfig, value) ==
    [enabled |-> isAlertEnabled(alertConfig), level |-> OrZero(parseFloat(value)).v]

\* setAlerts(prev => ({ ...prev, [city]: newAlert }))
withAlert(prev, city, newAlert) ==
    [c \in DOMAIN prev \cup {city} |-> IF c = city THEN newAlert ELSE prev[c]]

\* The value of the date input: "" or YYYY-MM-DD (month 1..12)
EmptyValue == [empty |-> TRUE, year |-> 0, month |-> 0, day |-> 0]
DateValue(y, m, d) == [empty |-> FALSE, year |-> y, month |-> m, day |-> d]

\* new Date(value + 'T00:00:00'): local midnight of the day, Invalid Date for "T00:00:00"
localMidnight(value, tz) ==
    IF value.empty THEN NaN
    ELSE Num(DayNumber(value.year, value.month - 1, value.day) * MinutesPerDay - tz)

\* dateToInputValue: date.toISOString().split('T')[0]; toISOString throws a
\* RangeError for an Invalid Date
dateToInputValue(date) ==
    IF date.nan THEN [completion |-> "throw", value |-> EmptyValue]
    ELSE [completion |-> "return",
          value |-> DateValue(UTCFields(date).year, UTCFields(date).month + 1, UTCFields(date).date)]

\* CITIES.map(city => generateTideDataForDate(city, selectedDate)); the calls
\* of one pass draw from one random source
generateAll(date, tz, random) ==
    [i \in 1..Len(CITIES) |-> generateTideDataForDate(CITIES[i], date, tz, random)]

\* What the store holds when the panel is first mounted: nothing, text that
\* does not parse, or a mapping saved earlier
SavedAlerts ==
    { [c \in {"Jakarta"} |-> [enabled |-> TRUE, level |-> 15]],
      [c \in {"Jakarta", "Medan"} |->
            IF c = "Jakarta" THEN [enabled |-> TRUE, level |-> 26]
            ELSE [enabled |-> FALSE, level |-> 20]] }

StoredItems == {NoItem, Malformed} \cup { JSONstringify(config) : config \in SavedAlerts }

\* the cards the user opens, and what is typed into the level input
TouchedCities == {"Jakarta", "Medan"}
LevelInputs == { << >>, <<"1", ".", "5">>, <<"2", ".", "6">> }

\* what is picked in the date input ("" when it is cleared)
DateInputs == { DateValue(2024, 3, 1), DateValue(2024, 1, 1), EmptyValue }

TidesOffsets == {-480, 420}

\* what Math.random() returns in the panel's calls of the generator
TidesRandomSources == { [i \in 1..24 |-> 500], [i \in 1..24 |-> IF i % 2 = 0 THEN 0 ELSE 999] }

\* new Date() when the panel is mounted: 2023-06-15T20:00Z
Nows == { Num(DayNumber(2023, 5, 15) * MinutesPerDay + 1200) }

\* Bounds of the exploration: changes of an alert or of the date, mounts of the panel
MaxTidesEvents == 2
MaxMounts == 2

TidesInit ==
    /\ tzOffset \in TidesOffsets
    /\ now \in Nows
    /\ tidesPc = "unmounted"
    /\ tideAlertsItem \in StoredItems
    /\ alerts = NoAlerts
    /\ selectedDate = Num(0)
    /\ tideInfo = << >>
    /\ tidesCity = CITIES[1]
    /\ pending = [setAlerts |-> FALSE, alerts |-> NoAlerts, tideInfo |-> << >>]
    /\ tidesLog = [errors |-> 0, crash |-> "none", mountedFrom |-> NoItem,
                   picked |-> EmptyValue, hasPicked |-> FALSE, changed |-> FALSE]
    /\ tidesEvents = [user |-> 0, mount |-> 0]

\* App.renderPage renders <Tides />: the first render with the initial state,
\* then its three effects in order: load (queues setAlerts), save (writes the
\* alerts of this render, {}), generate (queues setTideInfo).  An exception
\* leaving an effect unmounts the tree (there is no error boundary).
TidesMount ==
    /\ tidesPc = "unmounted"
    /\ tidesEvents.mount < MaxMounts
    /\ tidesEvents' = [tidesEvents EXCEPT !.mount = @ + 1]
    /\ alerts' = NoAlerts
    /\ selectedDate' = now
    /\ tideInfo' = << >>
    /\ tidesCity' = CITIES[1]
    /\ LET load == loadAlerts(tideAlertsItem)
       IN  /\ tidesLog' = [tidesLog EXCEPT !.errors = @ + load.errors,
                                           !.crash = IF load.escaped THEN "SyntaxError" ELSE @,
                                           !.mountedFrom = tideAlertsItem,
                                           !.hasPicked = FALSE, !.changed = FALSE]
           /\ IF load.escaped
              THEN /\ tidesPc' = "crashed"
                   /\ UNCHANGED <<tideAlertsItem, pending>>
              ELSE /\ tidesPc' = "rendered"
                   /\ tideAlertsItem' = JSONstringify(NoAlerts)
                   /\ \E random \in TidesRandomSources :
                        pending' = [setAlerts |-> load.setAlerts, alerts |-> load.alerts,
                                    tideInfo |-> generateAll(now, tzOffset, random)]
    /\ UNCHANGED <<tzOffset, now>>

\* the render of the queued updates, and the save effect if alerts changed
TidesSettle ==
    /\ tidesPc = "rendered"
    /\ tidesPc' = "settled"
    /\ alerts' = IF pending.setAlerts THEN pending.alerts ELSE alerts
    /\ tideInfo' = pending.tideInfo
    /\ tideAlertsItem' = IF pending.setAlerts THEN JSONstringify(pending.alerts) ELSE tideAlertsItem
    /\ pending' = [setAlerts |-> FALSE, alerts |-> NoAlerts, tideInfo |-> << >>]
    /\ UNCHANGED <<tzOffset, now, selectedDate, tidesCity, tidesLog, tidesEvents>>

\* handleSelectCity: setSelectedCity(prev => (prev === city ? null : city))
handleSelectCity ==
    /\ tidesPc = "settled"
    /\ \E city \in TouchedCities : tidesCity' = IF tidesCity = city THEN "null" ELSE city
    /\ UNCHANGED <<tzOffset, now, tidesPc, tideAlertsItem, alerts, selectedDate, tideInfo,
                   pending, tidesLog, tidesEvents>>

\* handleAlertChange(city, newAlert) and the save effect of the render it causes
handleAlertChange(city, newAlert) ==
    /\ tidesEvents.user < MaxTidesEvents
    /\ tidesEvents' = [tidesEvents EXCEPT !.user = @ + 1]
    /\ alerts' = withAlert(alerts, city, newAlert)
    /\ tideAlertsItem' = JSONstringify(withAlert(alerts, city, newAlert))
    /\ tidesLog' = [tidesLog EXCEPT !.changed = TRUE]
    /\ UNCHANGED <<tzOffset, now, tidesPc, selectedDate, tideInfo, tidesCity, pending>>

\* the checkbox of the open card is toggled
handleEnabledChange ==
    /\ tidesPc = "settled"
    /\ tidesCity \in TouchedCities
    /\ LET alertConfig == configOf(alerts, tidesCity)
       IN  handleAlertChange(tidesCity, enabledChanged(alertConfig, ~isAlertEnabled(alertConfig)))

\* a level is typed into the open card (the input is disabled unless enabled)
handleLevelChange ==
    /\ tidesPc = "settled"
    /\ tidesCity \in TouchedCities
    /\ isAlertEnabled(configOf(alerts, tidesCity))
    /\ \E value \in LevelInputs :
        handleAlertChange(tidesCity, levelChanged(configOf(alerts, tidesCity), value))

\* handleDateChange, the render it causes (which throws if the date is
\* invalid) and the generate effect
handleDateChange ==
    /\ tidesPc = "settled"
    /\ tidesEvents.user < MaxTidesEvents
    /\ tidesEvents' = [tidesEvents EXCEPT !.user = @ + 1]
    /\ \E value \in DateInputs :
        LET newDate == localMidnight(value, tzOffset)
        IN  /\ selectedDate' = newDate
            /\ IF dateToInputValue(newDate).completion = "throw"
               THEN /\ tidesPc' = "crashed"
                    /\ tidesLog' = [tidesLog EXCEPT !.crash = "RangeError", !.picked = value,
                                                    !.hasPicked = TRUE]
                    /\ UNCHANGED tideInfo
               ELSE /\ tidesLog' = [tidesLog EXCEPT !.picked = value, !.hasPicked = TRUE]
                    /\ \E random \in TidesRandomSources :
                        tideInfo' = generateAll(newDate, tzOffset, random)
                    /\ UNCHANGED tidesPc
    /\ UNCHANGED <<tzOffset, now, tideAlertsItem, alerts, tidesCity, pending>>

\* App.renderPage renders another panel: the state of Tides is discarded.
\* User events reach a panel whose queued updates are rendered.
TidesUnmount ==
    /\ tidesPc = "settled"
    /\ tidesPc' = "unmounted"
    /\ alerts' = NoAlerts
    /\ selectedDate' = Num(0)
    /\ tideInfo' = << >>
    /\ tidesCity' = CITIES[1]
    /\ tidesLog' = [tidesLog EXCEPT !.hasPicked = FALSE, !.changed = FALSE]
    /\ UNCHANGED <<tzOffset, now, tideAlertsItem, pending, tidesEvents>>

TidesNext ==
    \/ TidesMount /\ UNCHANGED <<mapVars, swVars, genVars, detectorVars, newsVars, shellVars>>
    \/ TidesSettle /\ UNCHANGED <<mapVars, swVars, genVars, detectorVars, newsVars, shellVars>>
    \/ handleSelectCity /\ UNCHANGED <<mapVars, swVars, genVars, detectorVars, newsVars, shellVars>>
    \/ handleEnabledChange /\ UNCHANGED <<mapVars, swVars, genVars, detectorVars, newsVars, shellVars>>
    \/ handleLevelChange /\ UNCHANGED <<mapVars, swVars, genVars, detectorVars, newsVars, shellVars>>
    \/ handleDateChange /\ UNCHANGED <<mapVars, swVars, genVars, detectorVars, newsVars, shellVars>>
    \/ TidesUnmount /\ UNCHANGED <<mapVars, swVars, genVars, detectorVars, newsVars, shellVars>>

TidesSpecInit ==
    TidesInit /\ MapAtRest /\ WorkerParsed /\ GenAtRest /\ DetectorAtRest /\ NewsAtRest
    /\ ShellAtRest

SpecTides == TidesSpecInit /\ [][TidesNext]_vars

----------------------------------------------------------------------------
(* Properties of the Tides panel *)

TideRecords == { tideInfo[i] : i \in 1..Len(tideInfo) }

\* the value of the triggered flag the panel derives for a record
Triggered(data) == isAlertTriggered(configOf(alerts, data.city), data)

\* C11: for every tide record and alert configuration, the triggered flag is
\* true when the location's alert is enabled and the height is at least the
\* threshold, and false or undefined when the alert is disabled or the
\* location has no configuration, whatever the height.
C11_TriggeredIffEnabledAndHigh ==
    \A data \in TideRecords :
        /\ ( /\ data.city \in DOMAIN alerts
             /\ alerts[data.city].enabled
             /\ data.height.v >= alerts[data.city].level ) => Triggered(data) = "true"
        /\ (data.city \notin DOMAIN alerts) => Triggered(data) \in {"false", "undefined"}
        /\ (data.city \in DOMAIN alerts /\ ~alerts[data.city].enabled)
                => Triggered(data) \in {"false", "undefined"}

\* C11 witness: one location's alert is enabled and triggered, another's is
\* disabled with the height above its threshold, a third has no configuration
C11_Witness ==
    /\ tidesPc = "settled"
    /\ \E d1, d2, d3 \in TideRecords :
        /\ d1.city \in DOMAIN alerts /\ alerts[d1.city].enabled
        /\ d1.height.v >= alerts[d1.city].level
        /\ d2.city \in DOMAIN alerts /\ ~alerts[d2.city].enabled
        /\ d2.height.v >= alerts[d2.city].level
        /\ d3.city \notin DOMAIN alerts

\* C17: when the stored alert configuration does not parse at start-up, no
\* exception escapes the load (the error is logged), the in-memory
\* configuration is the empty mapping, and no location's alert is enabled or
\* triggered.
C17_MalformedTreatedAsAbsent ==
    /\ tidesLog.crash # "SyntaxError"
    /\ (tidesLog.mountedFrom = Malformed /\ tidesPc \in {"rendered", "settled"} /\ ~tidesLog.changed)
        => /\ tidesLog.errors >= 1
           /\ ~pending.setAlerts
           /\ alerts = NoAlerts
           /\ \A data \in TideRecords :
                /\ ~isAlertEnabled(configOf(alerts, data.city))
                /\ Triggered(data) # "true"

\* C17 witness: the panel was mounted on a store that does not parse and
\* shows its six cards
C17_Witness ==
    /\ tidesLog.mountedFrom = Malformed
    /\ tidesPc = "settled"
    /\ tidesLog.errors >= 1
    /\ Len(tideInfo) = 6

\* C19: for every date picked in the date input and every local offset, the
\* selected date has the picked day, month and year, and the value written
\* back to the input by dateToInputValue is the picked string.
C19_PickedDateWrittenBack ==
    (tidesPc = "settled" /\ tidesLog.hasPicked /\ ~tidesLog.picked.empty)
        => /\ LocalFields(selectedDate, tzOffset) =
                [year |-> tidesLog.picked.year, month |-> tidesLog.picked.month - 1,
                 date |-> tidesLog.picked.day]
           /\ dateToInputValue(selectedDate) = [completion |-> "return", value |-> tidesLog.picked]

\* C24: whatever value the date input emits, the empty string of a cleared
\* input included, handling the change and rendering again raises no
\* exception, and every tide record has one of the four statuses.
C24_DateChangeLeavesPanelUsable ==
    tidesLog.hasPicked
        => /\ tidesPc # "crashed"
           /\ tidesLog.crash = "none"
           /\ \A data \in TideRecords : data.status \in {"Rising", "Falling", "High", "Low"}

\* C20: once the effects of a render have run, the stored mapping is the
\* in-memory mapping; a panel mounted on a stored mapping C and not changed by
\* the user holds C in memory and the store holds C again; unmounting leaves
\* the store as it is, so the next mount finds what was last saved.
C20_AlertsPersist ==
    /\ [](tidesPc = "settled"
            => /\ JSONparse(tideAlertsItem) = [completion |-> "return", value |-> alerts]
               /\ (tidesLog.mountedFrom.kind = "json" /\ ~tidesLog.changed)
                    => /\ JSONparse(tidesLog.mountedFrom).value = alerts
                       /\ tideAlertsItem = tidesLog.mountedFrom)
    /\ [][(tidesPc' = "unmounted" /\ tidesPc # "unmounted")
            => /\ tideAlertsItem' = tideAlertsItem
               /\ JSONparse(tideAlertsItem').value = alerts]_vars

\* C20 witness: the panel, mounted a second time and unchanged since, holds a
\* mapping the user had made during its first mount, with a disabled alert in it
C20_Witness ==
    /\ tidesPc = "settled"
    /\ tidesEvents.mount = 2 /\ tidesEvents.user >= 1
    /\ ~tidesLog.changed
    /\ alerts \notin SavedAlerts
    /\ \E c \in DOMAIN alerts : ~alerts[c].enabled

----------------------------------------------------------------------------
(* Detector: the water level and its refresh timer *)

\* useState(25)
InitialWaterLevel == 25 * Q

\* (Math.random() - 0.5) * 4, for a random number r in thousandths
changeOf(r) == RoundDiv((r - 500) * 4 * Q, 1000)

\* (mutant) the level is not capped at 100
clampLevel_NoUpper(newLevel) == Max(0, newLevel)

\* Math.max(0, Math.min(100, newLevel))
clampLevel(newLevel) == Max(0, Min(100 * Q, newLevel))

\* the updater of a tick: prevLevel => clampedLevel
nextLevel(prevLevel, change, baseLevel) ==
    LET newLevel == prevLevel + change
        pulled == IF Abs(newLevel - baseLevel) > 15 * Q
                  THEN (IF newLevel > baseLevel THEN newLevel - Q \div 2 ELSE newLevel + Q \div 2)
                  ELSE newLevel
    IN  clampLevel(pulled)

\* the baseLevel an effect computes for a city: generateBaseWaterLevel(selectedCity, new Date())
baseLevelOf(city, date, tz) == generateBaseWaterLevel(city, date, tz).v * Q

\* (mutant) the effect returns no cleanup
clearInterval_Nothing(active, id) == active

\* clearInterval(interval), the cleanup of an effect
clearInterval(active, id) == { t \in active : t.id # id }

\* setInterval(callback, 2000): the timer of component instance owner, whose
\* callback closes over baseLevel
setInterval(active, id, owner, baseLevel) ==
    active \cup {[id |-> id, owner |-> owner, baseLevel |-> baseLevel]}

\* the cities picked in the select, and what Math.random() returns in a tick
DetectorCities == {"Jakarta", "Medan", "Surabaya"}
RandomTicks == {0, 500, 999}

\* new Date() in the effect: 2023-03-11T20:00Z, which is the 11th or the 12th
\* of March in local time
DetectorNows == { Num(DayNumber(2023, 2, 11) * MinutesPerDay + 1200) }
DetectorOffsets == {0, 420}

\* Bounds of the exploration: timer ticks and city changes in one run
MaxTicks == 7
MaxCityChanges == 2

DetectorInit ==
    /\ tzOffset \in DetectorOffsets
    /\ now \in DetectorNows
    /\ detectorPc = "unmounted"
    /\ waterLevel = 0
    /\ detectorCity = CITIES[1]
    /\ timers = {}
    /\ interval = 0
    /\ detectorLog = [mounts |-> 0, cityChanges |-> 0, ticks |-> 0, sinceSeed |-> 0]

\* App.renderPage renders <Detector />: the first render, with the initial state
DetectorMount ==
    /\ detectorPc = "unmounted"
    /\ detectorLog.mounts < MaxMounts
    /\ detectorPc' = "rendered"
    /\ waterLevel' = InitialWaterLevel
    /\ detectorCity' = CITIES[1]
    /\ detectorLog' = [detectorLog EXCEPT !.mounts = @ + 1, !.sinceSeed = 0]
    /\ UNCHANGED <<tzOffset, now, timers, interval>>

\* the effect of the first render: seed the level, start the timer
DetectorEffect ==
    /\ detectorPc = "rendered"
    /\ detectorPc' = "running"
    /\ LET baseLevel == baseLevelOf(detectorCity, now, tzOffset)
           id == detectorLog.mounts + detectorLog.cityChanges
       IN  /\ waterLevel' = baseLevel
           /\ timers' = setInterval(timers, id, detectorLog.mounts, baseLevel)
           /\ interval' = id
    /\ UNCHANGED <<tzOffset, now, detectorCity, detectorLog>>

\* onChange of the select: setSelectedCity, then the cleanup of the last
\* effect and the effect for the new city
handleCityChange ==
    /\ detectorPc = "running"
    /\ detectorLog.cityChanges < MaxCityChanges
    /\ \E city \in DetectorCities \ {detectorCity} :
        LET baseLevel == baseLevelOf(city, now, tzOffset)
            id == detectorLog.mounts + detectorLog.cityChanges + 1
        IN  /\ detectorCity' = city
            /\ waterLevel' = baseLevel
            /\ timers' = setInterval(clearInterval(timers, interval), id, detectorLog.mounts, baseLevel)
            /\ interval' = id
    /\ detectorLog' = [detectorLog EXCEPT !.cityChanges = @ + 1, !.sinceSeed = 0]
    /\ UNCHANGED <<tzOffset, now, detectorPc>>

\* an active timer fires: setWaterLevel(prevLevel => ...), which does nothing
\* for a component instance that is no longer mounted
Tick ==
    /\ detectorLog.ticks < MaxTicks
    /\ \E t \in timers, r \in RandomTicks :
        waterLevel' = IF detectorPc # "unmounted" /\ t.owner = detectorLog.mounts
                      THEN nextLevel(waterLevel, changeOf(r), t.baseLevel)
                      ELSE waterLevel
    /\ detectorLog' = [detectorLog EXCEPT !.ticks = @ + 1, !.sinceSeed = @ + 1]
    /\ UNCHANGED <<tzOffset, now, detectorPc, detectorCity, timers, interval>>

\* App.renderPage renders another panel: the cleanup of the last effect runs
\* and the state of Detector is discarded
DetectorUnmount ==
    /\ detectorPc = "running"
    /\ detectorPc' = "unmounted"
    /\ timers' = clearInterval(timers, interval)
    /\ waterLevel' = 0
    /\ detectorCity' = CITIES[1]
    /\ UNCHANGED <<tzOffset, now, interval, detectorLog>>

DetectorNext ==
    \/ DetectorMount /\ UNCHANGED <<mapVars, swVars, genVars, tidesVars, newsVars, shellVars>>
    \/ DetectorEffect /\ UNCHANGED <<mapVars, swVars, genVars, tidesVars, newsVars, shellVars>>
    \/ handleCityChange /\ UNCHANGED <<mapVars, swVars, genVars, tidesVars, newsVars, shellVars>>
    \/ Tick /\ UNCHANGED <<mapVars, swVars, genVars, tidesVars, newsVars, shellVars>>
    \/ DetectorUnmount /\ UNCHANGED <<mapVars, swVars, genVars, tidesVars, newsVars, shellVars>>

DetectorSpecInit ==
    DetectorInit /\ MapAtRest /\ WorkerParsed /\ GenAtRest /\ TidesAtRest /\ NewsAtRest
    /\ ShellAtRest

SpecDetector == DetectorSpecInit /\ [][DetectorNext]_vars

----------------------------------------------------------------------------
(* Properties of the Detector *)

\* C14: the displayed water level is in [0, 100] in every reachable state:
\* initially (25), when an effect has seeded it with a base in [10, 90], and
\* after any number of ticks with any random changes.
C14_LevelInRange ==
    /\ 0 <= waterLevel /\ waterLevel <= 100 * Q
    /\ detectorPc = "rendered" => waterLevel = 25 * Q
    /\ \A t \in timers : 10 * Q <= t.baseLevel /\ t.baseLevel <= 90 * Q
    /\ (detectorPc = "running" /\ detectorLog.sinceSeed = 0)
        => /\ 10 * Q <= waterLevel /\ waterLevel <= 90 * Q
           /\ \E t \in timers : t.id = interval /\ t.baseLevel = waterLevel

\* C14 witness: from a base of 90 the level has been driven to 100 and held there
C14_Witness ==
    /\ detectorPc = "running"
    /\ waterLevel = 100 * Q
    /\ detectorLog.sinceSeed >= 6
    /\ \E t \in timers : t.baseLevel = 90 * Q

\* C15: at most one refresh timer is active at any time; a city change
\* cancels the previous timer before the new one starts and re-seeds the level
\* for the new city; once the panel is torn down no timer is active and no
\* tick fires.
C15_OneTimer ==
    /\ [](/\ Cardinality(timers) <= 1
          /\ detectorPc = "unmounted" => timers = {}
          /\ detectorPc = "running" => \E t \in timers : t.id = interval)
    /\ [][detectorCity' # detectorCity /\ detectorPc' = "running"
            => /\ \A t \in timers : t \notin timers'
               /\ Cardinality(timers') = 1
               /\ \A t \in timers' :
                    /\ t.baseLevel = generateBaseWaterLevel(detectorCity', now, tzOffset).v * Q
                    /\ waterLevel' = t.baseLevel]_vars
    /\ [][detectorLog'.ticks # detectorLog.ticks => detectorPc = "running"]_vars

\* C15 witness: after a city change, a teardown and a second mount, one timer
\* is active and has ticked
C15_Witness ==
    /\ detectorPc = "running"
    /\ detectorLog.mounts = 2 /\ detectorLog.cityChanges >= 1
    /\ detectorLog.sinceSeed >= 1
    /\ Cardinality(timers) = 1

----------------------------------------------------------------------------
(* News: fetchNews and what renderContent shows *)

\* The text of a response is a sequence of pieces: the fences (three
\* backticks, with json after them or not), a line break,
\* the JSON text of an array of n articles, and anything else.
Piece(kind, n) == [kind |-> kind, n |-> n]
FenceJson == Piece("fence-json", 0)
Fence == Piece("fence", 0)
Newline == Piece("newline", 0)
ArrayText(n) == Piece("array", n)
Prose == Piece("prose", 0)

\* text.replace(/```json\n?|\n?```/g, ''), scanning from piece i
RECURSIVE stripFences(_, _)
stripFences(text, i) ==
    IF i > Len(text) THEN << >>
    ELSE IF text[i] = FenceJson
         THEN stripFences(text, IF i < Len(text) /\ text[i + 1] = Newline THEN i + 2 ELSE i + 1)
    ELSE IF text[i] = Newline /\ i < Len(text) /\ text[i + 1] = Fence
         THEN stripFences(text, i + 2)
    ELSE IF text[i] = Fence THEN stripFences(text, i + 1)
    ELSE <<text[i]>> \o stripFences(text, i + 1)

\* str.trim()
RECURSIVE trim(_)
trim(text) ==
    IF text = << >> THEN text
    ELSE IF text[1] = Newline THEN trim(Tail(text))
    ELSE IF text[Len(text)] = Newline THEN trim(SubSeq(text, 1, Len(text) - 1))
    ELSE text

\* (mutant) the fences are not stripped
cleanedText_NoStrip(text) == trim(text)

\* response.text.replace(/```json\n?|\n?```/g, '').trim()
cleanedText(text) == trim(stripFences(text, 1))

\* JSON.parse(cleanedText): the articles (here their ids), or a SyntaxError
parseArticles(text) ==
    IF Len(text) = 1 /\ text[1].kind = "array"
    THEN [completion |-> "return", value |-> [i \in 1..text[1].n |-> i]]
    ELSE [completion |-> "throw", value |-> << >>]

\* How the awaited call of the service settles: it rejects with an Error or
\* with something that is not one, or it resolves with a response that has a
\* text or none.
Rejected(isError) == [kind |-> IF isError THEN "rejected-error" ELSE "rejected-other", text |-> << >>]
Resolved(text) == [kind |-> "resolved", text |-> text]
ResolvedNoText == [kind |-> "resolved-undefined", text |-> << >>]

\* e instanceof Error ? e.message : "An unknown error occurred. ..."
errorMessage(isError, message) == IF isError THEN message
    ELSE "An unknown error occurred. Please check the console for details."

\* fetchNews from the await on: the try block's rest, the catch, the finally;
\* the state updates it makes
afterAwait(settled) ==
    IF settled.kind = "resolved"
    THEN LET parsed == parseArticles(cleanedText(settled.text))
         IN  IF parsed.completion = "return"
             THEN [setArticles |-> TRUE, articles |-> parsed.value,
                   setError |-> FALSE, error |-> "null", isLoading |-> FALSE]
             ELSE [setArticles |-> FALSE, articles |-> << >>,
                   setError |-> TRUE, error |-> errorMessage(TRUE, "SyntaxError"),
                   isLoading |-> FALSE]
    ELSE IF settled.kind = "resolved-undefined"
    THEN [setArticles |-> FALSE, articles |-> << >>,
          setError |-> TRUE, error |-> errorMessage(TRUE, "TypeError"), isLoading |-> FALSE]
    ELSE [setArticles |-> FALSE, articles |-> << >>,
          setError |-> TRUE,
          error |-> errorMessage(settled.kind = "rejected-error", "service error"),
          isLoading |-> FALSE]

\* renderContent: which of its four returns is taken
renderContent(loading, err, shown) ==
    IF loading THEN "skeleton"
    ELSE IF err # "null" /\ err # "" THEN "retry"
    ELSE IF Len(shown) > 0 THEN "cards"
    ELSE "empty"

\* the texts the service answers with
ResponseTexts ==
    { <<ArrayText(8)>>,
      <<FenceJson, Newline, ArrayText(8), Newline, Fence>>,
      <<Fence, Newline, ArrayText(2), Newline, Fence, Newline>>,
      <<ArrayText(0)>>,
      <<Prose, Newline, ArrayText(8)>>,
      <<FenceJson, Newline, Prose, Newline, Fence>>,
      << >> }

Settlements ==
    { Rejected(TRUE), Rejected(FALSE), ResolvedNoText } \cup { Resolved(text) : text \in ResponseTexts }

\* Bounds of the exploration: calls of fetchNews in one run
MaxNewsFetches == 3

NewsInit ==
    /\ newsPc = "unmounted"
    /\ isLoading = TRUE
    /\ error = "null"
    /\ articles = << >>
    /\ newsCalls = {}
    /\ newsLog = [mounts |-> 0, fetches |-> 0, failures |-> 0, outcome |-> "none",
                  settled |-> [kind |-> "none", text |-> << >>],
                  appliedTo |-> 0, discarded |-> 0]

\* fetchNews up to the await: setIsLoading(true), setError(null), the call
startFetch ==
    /\ isLoading' = TRUE
    /\ error' = "null"
    /\ newsCalls' = newsCalls \cup {[id |-> newsLog.fetches + 1, owner |-> newsLog.mounts]}

\* App.renderPage renders <News />: the first render and the effect, which calls fetchNews
NewsMount ==
    /\ newsPc = "unmounted"
    /\ activePage # "NEWS"
    /\ activePage' = "NEWS"
    /\ newsLog.mounts < MaxMounts
    /\ newsLog.fetches < MaxNewsFetches
    /\ newsPc' = "fetching"
    /\ articles' = << >>
    /\ isLoading' = TRUE
    /\ error' = "null"
    /\ newsCalls' = newsCalls \cup {[id |-> newsLog.fetches + 1, owner |-> newsLog.mounts + 1]}
    /\ newsLog' = [newsLog EXCEPT !.mounts = @ + 1, !.fetches = @ + 1, !.failures = 0,
                                  !.outcome = "none"]

\* (mutant) the updates of a call reach whichever News is mounted
ServiceSettles_AnyInstance ==
    \E call \in newsCalls, settled \in Settlements :
        /\ newsCalls' = newsCalls \ {call}
        /\ UNCHANGED activePage
        /\ IF newsPc # "unmounted"
           THEN LET updates == afterAwait(settled)
                IN  /\ articles' = IF updates.setArticles THEN updates.articles ELSE articles
                    /\ error' = IF updates.setError THEN updates.error ELSE error
                    /\ isLoading' = updates.isLoading
                    /\ newsPc' = "done"
                    /\ newsLog' = [newsLog EXCEPT
                            !.outcome = IF updates.setArticles THEN "success" ELSE "failure",
                            !.failures = IF updates.setArticles THEN @ ELSE @ + 1,
                            !.settled = settled,
                            !.appliedTo = call.owner]
           ELSE /\ newsLog' = [newsLog EXCEPT !.discarded = 1]
                /\ UNCHANGED <<newsPc, isLoading, error, articles>>

\* the awaited call settles; the updates of a call whose component instance
\* is gone do nothing
ServiceSettles ==
    \E call \in newsCalls, settled \in Settlements :
        /\ newsCalls' = newsCalls \ {call}
        /\ UNCHANGED activePage
        /\ IF newsPc # "unmounted" /\ call.owner = newsLog.mounts
           THEN LET updates == afterAwait(settled)
                IN  /\ articles' = IF updates.setArticles THEN updates.articles ELSE articles
                    /\ error' = IF updates.setError THEN updates.error ELSE error
                    /\ isLoading' = updates.isLoading
                    /\ newsPc' = "done"
                    /\ newsLog' = [newsLog EXCEPT
                            !.outcome = IF updates.setArticles THEN "success" ELSE "failure",
                            !.failures = IF updates.setArticles THEN @ ELSE @ + 1,
                            !.settled = settled,
                            !.appliedTo = call.owner]
           ELSE /\ newsLog' = [newsLog EXCEPT !.discarded = 1]
                /\ UNCHANGED <<newsPc, isLoading, error, articles>>

\* onClick of the Retry button, which renderContent shows in its error branch
Retry ==
    /\ newsPc = "done"
    /\ renderContent(isLoading, error, articles) = "retry"
    /\ newsLog.fetches < MaxNewsFetches
    /\ startFetch
    /\ newsPc' = "fetching"
    /\ newsLog' = [newsLog EXCEPT !.fetches = @ + 1, !.outcome = "none"]
    /\ UNCHANGED <<articles, activePage>>

\* App.renderPage renders another panel: the state of News is discarded, a
\* call in flight is not cancelled
NewsUnmount ==
    /\ newsPc # "unmounted"
    /\ activePage = "NEWS"
    /\ activePage' \in {"DETECTOR", "TIDES", "SETTINGS"}
    /\ newsPc' = "unmounted"
    /\ isLoading' = TRUE
    /\ error' = "null"
    /\ articles' = << >>
    /\ newsLog' = [newsLog EXCEPT !.outcome = "none", !.failures = 0]
    /\ UNCHANGED newsCalls

\* App is loaded and shows its first page; the theme was stored as dark
AppOpen ==
    /\ appPc = "settled"
    /\ activePage = "DETECTOR"
    /\ theme = "dark"
    /\ themeItem = "dark"
    /\ prefersDark = FALSE
    /\ profile = [name |-> "Aqua User", picture |-> "null"]
    /\ appLog = [loads |-> 1, toggles |-> 0, storedAtLoad |-> "dark", queued |-> "dark"]

NewsRest ==
    <<mapVars, swVars, genVars, envVars, tidesVars, detectorVars, gestureVars, settingsVars,
      appPc, theme, themeItem, prefersDark, profile, appLog>>

NewsNext ==
    \/ NewsMount /\ UNCHANGED NewsRest
    \/ ServiceSettles /\ UNCHANGED NewsRest
    \/ Retry /\ UNCHANGED NewsRest
    \/ NewsUnmount /\ UNCHANGED NewsRest

NewsSpecInit ==
    NewsInit /\ MapAtRest /\ WorkerParsed /\ GenAtRest /\ EnvAtRest /\ TidesAtRest /\ DetectorAtRest
    /\ GestureAtRest /\ SettingsAtRest /\ AppOpen

SpecNews == NewsSpecInit /\ [][NewsNext]_vars

----------------------------------------------------------------------------
(* News: properties *)

\* what is left of a text without its fences and line breaks
Payload(text) == SelectSeq(text, LAMBDA piece : piece \notin {FenceJson, Fence, Newline})

\* the text is valid JSON once its code fences are stripped
ValidJson(text) == Len(Payload(text)) = 1 /\ Payload(text)[1].kind = "array"

\* the array a valid text stands for
ArrayOf(text) == [i \in 1..Payload(text)[1].n |-> i]

C25_StaleFetchDiscarded ==
    /\ [][(newsPc # "unmounted" /\ newsPc' = "unmounted") => newsCalls' = newsCalls]_vars
    /\ [][(\E call \in newsCalls \ newsCalls' :
                newsPc = "unmounted" \/ call.owner # newsLog.mounts)
            => UNCHANGED <<activePage, theme, themeItem, profile, alerts, tideAlertsItem,
                           waterLevel, isLoading, error, articles>>]_vars
    /\ [][(newsPc = "unmounted" /\ newsPc' # "unmounted")
            => /\ newsPc' = "fetching"
               /\ isLoading' = TRUE /\ error' = "null" /\ articles' = << >>
               /\ \E call \in newsCalls' \ newsCalls : call.owner = newsLog'.mounts]_vars
    /\ [](newsPc = "fetching" /\ newsLog.failures = 0
            => isLoading = TRUE /\ error = "null" /\ articles = << >>)
    /\ [](newsPc = "done" => newsLog.appliedTo = newsLog.mounts)

\* C25 witness: the user left News while its fetch was in flight, the call
\* settled and was discarded, and the News opened next shows the articles of
\* its own fetch
C25_Witness ==
    /\ newsLog.mounts = 2
    /\ newsLog.discarded = 1
    /\ newsPc = "done"
    /\ newsLog.outcome = "success"
    /\ newsLog.appliedTo = 2
    /\ activePage = "NEWS"

----------------------------------------------------------------------------
(* App: the active page, the theme and its persistence; Settings: the draft *)

\* enum Page
Pages == {"DETECTOR", "NEWS", "TIDES", "SETTINGS"}

\* useState<Profile>({ name: 'Aqua User', picture: null })
InitialProfile == [name |-> "Aqua User", picture |-> "null"]

\* window.matchMedia('(prefers-color-scheme: dark)').matches ? 'dark' : 'light'
preferredTheme(matches) == IF matches THEN "dark" ELSE "light"

\* (mutant) the system preference comes first
initialTheme_PreferenceFirst(storedTheme, matches) == preferredTheme(matches)

\* storedTheme || preferredTheme
initialTheme(storedTheme, matches) ==
    IF storedTheme \notin {"null", ""} THEN storedTheme ELSE preferredTheme(matches)

\* prevTheme === 'light' ? 'dark' : 'light'
toggled(prevTheme) == IF prevTheme = "light" THEN "dark" ELSE "light"

\* (mutant) only the name is compared
differs_NameOnly(draftName, draftPicture, saved) == draftName # saved.name

\* name !== profile.name || picture !== profile.picture
differs(draftName, draftPicture, saved) ==
    draftName # saved.name \/ draftPicture # saved.picture

\* what the name input and the FileReader can deliver (null: the read failed)
NameInputs == {"Aqua User", "Sam"}
ReadResults == {"data:a", "null"}
StoredThemes == {"null", "light", "dark"}

\* Bounds of the exploration: page loads, theme toggles, visits of Settings,
\* edits of the draft (typing and file reads)
MaxLoads == 2
MaxToggles == 2
MaxVisits == 2
MaxEdits == 2

AppInit ==
    /\ appPc = "closed"
    /\ activePage = "DETECTOR"
    /\ theme = "light"
    /\ themeItem \in StoredThemes
    /\ prefersDark \in BOOLEAN
    /\ profile = InitialProfile
    /\ appLog = [loads |-> 0, toggles |-> 0, storedAtLoad |-> "null", queued |-> "none"]
    /\ settingsPc = "unmounted"
    /\ name = "Aqua User"
    /\ picture = "null"
    /\ isEditing = FALSE
    /\ reads = {}
    /\ settingsLog = [mounts |-> 0, edits |-> 0, last |-> "none"]

\* the state of an unmounted Settings
settingsGone ==
    /\ settingsPc' = "unmounted"
    /\ name' = "Aqua User"
    /\ picture' = "null"
    /\ isEditing' = FALSE

\* The page is loaded: the first render of App and its effects in order.  The
\* second effect reads the stored theme and queues setTheme(initialTheme);
\* the third runs on the theme of this render, 'light', and stores it.
AppLoad ==
    /\ appPc = "closed"
    /\ appLog.loads < MaxLoads
    /\ appPc' = "rendered"
    /\ activePage' = "DETECTOR"
    /\ profile' = InitialProfile
    /\ theme' = "light"
    /\ themeItem' = "light"
    /\ appLog' = [loads |-> appLog.loads + 1, toggles |-> 0, storedAtLoad |-> themeItem,
                  queued |-> initialTheme(themeItem, prefersDark)]
    /\ UNCHANGED <<prefersDark, settingsVars>>

\* the queued setTheme is rendered; the theme effect runs again if the theme
\* changed
AppSettle ==
    /\ appPc = "rendered"
    /\ appPc' = "settled"
    /\ theme' = appLog.queued
    /\ themeItem' = IF appLog.queued # theme THEN appLog.queued ELSE themeItem
    /\ UNCHANGED <<activePage, prefersDark, profile, appLog, settingsVars>>

\* onClick of the DarkModeToggle in Settings: setTheme(prev => ...)
handleThemeChange ==
    /\ appPc = "settled"
    /\ settingsPc = "settled"
    /\ appLog.toggles < MaxToggles
    /\ appPc' = "rendered"
    /\ appLog' = [appLog EXCEPT !.toggles = @ + 1, !.queued = toggled(theme)]
    /\ UNCHANGED <<activePage, theme, themeItem, prefersDark, profile, settingsVars>>

\* BottomNav: setActivePage(page).  renderPage mounts Settings with the saved
\* profile when it becomes the active page and unmounts it when another does;
\* a file read in flight is not cancelled.
setActivePage ==
    \E page \in Pages \ {activePage} :
        /\ appPc = "settled"
        /\ settingsPc \in {"unmounted", "settled"}
        /\ activePage' = page
        /\ IF page = "SETTINGS"
           THEN /\ settingsLog.mounts < MaxVisits
                /\ settingsPc' = "rendered"
                /\ name' = profile.name
                /\ picture' = profile.picture
                /\ isEditing' = FALSE
                /\ settingsLog' = [settingsLog EXCEPT !.mounts = @ + 1, !.last = "mount"]
           ELSE IF activePage = "SETTINGS"
           THEN /\ settingsGone
                /\ settingsLog' = [settingsLog EXCEPT
                        !.last = IF isEditing THEN "discarded" ELSE "left"]
           ELSE UNCHANGED <<settingsPc, name, picture, isEditing, settingsLog>>
        /\ UNCHANGED <<appPc, theme, themeItem, prefersDark, profile, appLog, reads>>

\* The effects of the last render of Settings: the first copies the saved
\* profile into the draft, the second sets isEditing from the draft of that
\* render; the updates are rendered.  After a mount both run; afterwards the
\* first runs when the profile changed (handleSave), the second when the
\* draft or the profile did.
SettingsEffects ==
    /\ settingsPc = "rendered"
    /\ settingsPc' = IF settingsLog.last \in {"mount", "save"}
                        /\ <<name, picture>> # <<profile.name, profile.picture>>
                     THEN "rendered" ELSE "settled"
    /\ name' = IF settingsLog.last \in {"mount", "save"} THEN profile.name ELSE name
    /\ picture' = IF settingsLog.last \in {"mount", "save"} THEN profile.picture ELSE picture
    /\ isEditing' = differs(name, picture, profile)
    /\ UNCHANGED <<appVars, reads, settingsLog>>

\* onChange of the name input: setName(e.target.value)
handleNameChange ==
    \E value \in NameInputs :
        /\ settingsPc = "settled"
        /\ settingsLog.edits < MaxEdits
        /\ name' = value
        /\ settingsPc' = "rendered"
        /\ settingsLog' = [settingsLog EXCEPT !.edits = @ + 1, !.last = "edit"]
        /\ UNCHANGED <<appVars, picture, isEditing, reads>>

\* handlePictureChange: a file was chosen, reader.readAsDataURL(file) starts
handlePictureChange ==
    /\ settingsPc = "settled"
    /\ settingsLog.edits < MaxEdits
    /\ reads' = reads \cup {[id |-> settingsLog.edits + 1, owner |-> settingsLog.mounts]}
    /\ settingsLog' = [settingsLog EXCEPT !.edits = @ + 1]
    /\ UNCHANGED <<appVars, settingsPc, name, picture, isEditing>>

\* reader.onloadend: setPicture(reader.result); nothing happens if the
\* Settings that started the read is gone
onloadend ==
    \E read \in reads, result \in ReadResults :
        /\ settingsPc \in {"unmounted", "settled"}
        /\ reads' = reads \ {read}
        /\ IF settingsPc = "settled" /\ read.owner = settingsLog.mounts
           THEN /\ picture' = result
                /\ settingsPc' = "rendered"
                /\ settingsLog' = [settingsLog EXCEPT !.last = "edit"]
           ELSE UNCHANGED <<settingsPc, picture, settingsLog>>
        /\ UNCHANGED <<appVars, name, isEditing>>

\* onClick of Save Changes, which is rendered when isEditing:
\* onProfileChange({ name, picture }); setIsEditing(false)
handleSave ==
    /\ settingsPc = "settled"
    /\ isEditing
    /\ profile' = [name |-> name, picture |-> picture]
    /\ isEditing' = FALSE
    /\ settingsPc' = "rendered"
    /\ settingsLog' = [settingsLog EXCEPT !.last = "save"]
    /\ UNCHANGED <<appPc, activePage, theme, themeItem, prefersDark, appLog, name, picture, reads>>

\* the page is closed or reloaded: the state of App and of its panels is
\* gone, localStorage stays
AppClose ==
    /\ appPc = "settled"
    /\ settingsPc \in {"unmounted", "settled"}
    /\ appPc' = "closed"
    /\ activePage' = "DETECTOR"
    /\ theme' = "light"
    /\ profile' = InitialProfile
    /\ settingsGone
    /\ reads' = {}
    /\ prefersDark' \in BOOLEAN
    /\ settingsLog' = [settingsLog EXCEPT !.last = "none"]
    /\ UNCHANGED <<themeItem, appLog>>

AppRest == <<mapVars, swVars, genVars, envVars, tidesVars, detectorVars, newsVars, gestureVars>>

AppNext ==
    \/ AppLoad /\ UNCHANGED AppRest
    \/ AppSettle /\ UNCHANGED AppRest
    \/ handleThemeChange /\ UNCHANGED AppRest
    \/ setActivePage /\ UNCHANGED AppRest
    \/ SettingsEffects /\ UNCHANGED AppRest
    \/ handleNameChange /\ UNCHANGED AppRest
    \/ handlePictureChange /\ UNCHANGED AppRest
    \/ onloadend /\ UNCHANGED AppRest
    \/ handleSave /\ UNCHANGED AppRest
    \/ AppClose /\ UNCHANGED AppRest

AppSpecInit ==
    AppInit /\ MapAtRest /\ WorkerParsed /\ GenAtRest /\ EnvAtRest /\ TidesAtRest
    /\ DetectorAtRest /\ NewsAtRest /\ GestureAtRest

SpecApp == AppSpecInit /\ [][AppNext]_vars

----------------------------------------------------------------------------
(* Properties of App and Settings *)

\* C21: the value stored under the theme key is "light" or "dark"; once the
\* effects of a toggle have run it is the current theme; at start-up a stored
\* theme wins over the system's colour scheme and is the stored value again
\* once the initialization has settled.
C21_ThemeStored ==
    /\ themeItem \in {"null", "light", "dark"}
    /\ appLog.loads >= 1 => themeItem \in {"light", "dark"}
    /\ appPc = "settled" => themeItem = theme
    /\ (appPc = "settled" /\ appLog.toggles = 0 /\ appLog.storedAtLoad # "null")
            => theme = appLog.storedAtLoad /\ themeItem = appLog.storedAtLoad

\* C21 witness: the second load of the page found dark stored, on a system
\* that prefers light, and settled on dark
C21_Witness ==
    /\ appPc = "settled"
    /\ appLog.loads = 2
    /\ appLog.toggles = 0
    /\ appLog.storedAtLoad = "dark"
    /\ ~prefersDark
    /\ theme = "dark"
    /\ themeItem = "dark"

\* C28: once the effects have run, Save Changes is shown exactly when the
\* draft differs from the saved profile; an edit of the draft leaves the saved
\* profile as it is; Save makes the saved profile the draft and hides the
\* button; leaving Settings leaves the saved profile as it is, and the next
\* visit starts from the saved profile.
C28_DraftAndSavedProfile ==
    /\ [](settingsPc = "settled"
            => isEditing = (name # profile.name \/ picture # profile.picture))
    /\ [](settingsPc = "settled" /\ settingsLog.last = "save"
            => ~isEditing /\ profile = [name |-> name, picture |-> picture])
    /\ [](settingsPc = "settled" /\ settingsLog.last = "mount"
            => ~isEditing /\ name = profile.name /\ picture = profile.picture)
    /\ [][(settingsPc = "settled" /\ settingsPc' = "rendered" /\ settingsLog'.last = "edit")
            => profile' = profile]_vars
    /\ [][(settingsPc = "settled" /\ settingsPc' = "rendered" /\ settingsLog'.last = "save")
            => profile' = [name |-> name, picture |-> picture] /\ isEditing' = FALSE]_vars
    /\ [][(activePage = "SETTINGS" /\ activePage' # "SETTINGS" /\ appPc' # "closed")
            => profile' = profile]_vars

\* C28 witness: a draft was saved, a later draft was left unsaved when the
\* user navigated away, and the saved profile is still the first draft
C28_Witness ==
    /\ settingsLog.last = "discarded"
    /\ settingsPc = "unmounted"
    /\ activePage # "SETTINGS"
    /\ profile # InitialProfile

====
